---- MODULE Spec2Model ----
(***************************************************************************)
(* Model of the repair agent's orchestration pipeline                      *)
(* (backend/agent/app/graph): the run-scoped AgentState dictionary, the    *)
(* nodes of the LangGraph graph, the three routing predicates and the      *)
(* orchestrator run_agent_graph with its recursion limit and crash         *)
(* handler.                                                                *)
(*                                                                         *)
(* The AgentState is a TypedDict(total=False): a dictionary whose keys may *)
(* be absent.  It is modelled as a function whose DOMAIN is the set of     *)
(* keys present; a node returns a partial dictionary and the graph merges  *)
(* it into the state (update @@ state).                                    *)
(*                                                                         *)
(* Python strings that the code inspects (lower(), substring tests,        *)
(* f-strings) are sequences of one-character strings.                      *)
(***************************************************************************)
EXTENDS Integers, Sequences, FiniteSets, TLC

VARIABLES
    state,           \* the AgentState dictionary of the run
    pc,              \* the node the graph executes next ("END", "crashed" when over)
    steps,           \* number of node executions so far (LangGraph supersteps)
    repo,            \* the working copy / remote: commits created, pushes landed
    journal,         \* the rows written through update_run_status, in order
    artifact,        \* the results.json documents written by the scorer, in order
    last_route,      \* label returned by the last routing predicate evaluated
    publisher_runs,  \* commit_push executions since the last retry transition
    events,          \* the events emitted on the run's stream, in order
    run_state_store, \* the agent service's InMemoryRunStateStore._runs
    requests,        \* the HTTP requests the agent service has received
    llm,             \* llm.py's module globals (_lock, _cycle) and the keys handed out
    db,              \* db.py's module global _pool and the pools created so far
    tasks            \* the threads or coroutines calling into llm.py or db.py

vars == <<state, pc, steps, repo, journal, artifact, last_route, publisher_runs, events,
          run_state_store, requests, llm, db, tasks>>

(***************************************************************************)
(* Bounds of the model.                                                    *)
(***************************************************************************)
MaxIter == 2          \* iteration budgets explored by Spec: 1..MaxIter
MaxFailures == 1      \* failures the Analyzer returns per iteration: 0..MaxFailures
MaxFixes == 2         \* FixRecords in a state handed to the scorer by SpecScorer
MaxCiRuns == 2        \* CiRuns in a state handed to the scorer by SpecScorer
MaxBatch == 2         \* failures in a batch handed to fix_generator by SpecFixGen
MaxTokens == 2        \* fragments joined into one error message by SpecAnalyzer: 1..MaxTokens
MaxLines == 2         \* lines of a requirements.txt in SpecImport: 0..MaxLines
MaxPatches == 3       \* applications of the IMPORT rule to one manifest that patch it
MaxRequests == 3      \* HTTP requests the agent service receives in SpecApi
MaxTasks == 2         \* threads in SpecLlm, coroutines in SpecPool: 1..MaxTasks
MaxCalls == 2         \* calls each task makes
MaxKeys == 2          \* primary API keys configured: 0..MaxKeys

(***************************************************************************)
(* Program constants.                                                      *)
(***************************************************************************)
_RECURSION_LIMIT == 100     \* builder.py: _RECURSION_LIMIT
MAX_ITERATIONS == 5         \* config.MAX_ITERATIONS, as stated in builder.py
MinBudget == 1              \* models.py: max_iterations ge=1
MaxBudget == 20             \* models.py: max_iterations le=20
MaxDescription == 80        \* commit_push.py: f.description[:80]
SCORE_BASE == 100                         \* config.SCORE_BASE
SCORE_SPEED_BONUS == 10                   \* config.SCORE_SPEED_BONUS
SCORE_SPEED_THRESHOLD_SECS == 300         \* config.SCORE_SPEED_THRESHOLD_SECS
SCORE_EFFICIENCY_PENALTY_PER_COMMIT == 2  \* config.SCORE_EFFICIENCY_PENALTY_PER_COMMIT
SCORE_EFFICIENCY_FREE_COMMITS == 20       \* config.SCORE_EFFICIENCY_FREE_COMMITS
Tenths == 10                \* scores are rounded to one decimal: kept as integers, in tenths

(***************************************************************************)
(* Strings.                                                                *)
(***************************************************************************)
UPPER == <<"A","B","C","D","E","F","G","H","I","J","K","L","M","N","O","P","Q","R","S","T","U","V","W","X","Y","Z">>
LOWER == <<"a","b","c","d","e","f","g","h","i","j","k","l","m","n","o","p","q","r","s","t","u","v","w","x","y","z">>

\* str.lower() on one character
LowerChar(c) ==
    IF \E i \in 1..Len(UPPER) : UPPER[i] = c
    THEN LOWER[CHOOSE i \in 1..Len(UPPER) : UPPER[i] = c]
    ELSE c

\* str.lower()
Lower(s) == [i \in 1..Len(s) |-> LowerChar(s[i])]

\* sub in s
Contains(s, sub) ==
    \E i \in 1..(Len(s) - Len(sub) + 1) : SubSeq(s, i, i + Len(sub) - 1) = sub

\* s.startswith(prefix)
StartsWith(s, prefix) ==
    Len(s) >= Len(prefix) /\ SubSeq(s, 1, Len(prefix)) = prefix

STR_commit_push_failed == <<"c","o","m","m","i","t","/","p","u","s","h"," ","f","a","i","l","e","d">>
STR_Git_commit_push_failed == <<"G","i","t"," ","c","o","m","m","i","t","/","p","u","s","h"," ","f","a","i","l","e","d",":"," ">>
STR_BLOCKED == <<"B","L","O","C","K","E","D",":"," ","R","e","f","u","s","i","n","g"," ","t","o"," ","p","u","s","h"," ","t","o"," ","p","r","o","t","e","c","t","e","d"," ","b","r","a","n","c","h"," ","'">>
STR_quote == <<"'">>
STR_Push_rejected == <<"P","u","s","h"," ","r","e","j","e","c","t","e","d",":"," ">>
STR_main == <<"m","a","i","n">>
STR_master == <<"m","a","s","t","e","r">>
STR_develop == <<"d","e","v","e","l","o","p">>
STR_release == <<"r","e","l","e","a","s","e">>

STR_AI_AGENT_Fix == <<"[","A","I","-","A","G","E","N","T","]"," ","F","i","x"," ">>
STR_issues == <<" ","i","s","s","u","e","(","s",")",":"," ">>
STR_iter == <<" ","(","i","t","e","r"," ">>
STR_close == <<")">>
STR_colon == <<":"," ">>
STR_comma == <<","," ">>
DIGITS == <<"0","1","2","3","4","5","6","7","8","9">>

\* str(n) of a natural number
RECURSIVE StrOfInt(_)
StrOfInt(n) ==
    IF n < 10 THEN <<DIGITS[n + 1]>>
    ELSE StrOfInt(n \div 10) \o <<DIGITS[(n % 10) + 1]>>

\* state.py: BugType, in sorted() order, with the text of each value
BugTypes == <<"IMPORT", "INDENTATION", "LINTING", "LOGIC", "SYNTAX", "TYPE_ERROR">>
BugTypeText(b) ==
    CASE b = "IMPORT" -> <<"I","M","P","O","R","T">>
      [] b = "INDENTATION" -> <<"I","N","D","E","N","T","A","T","I","O","N">>
      [] b = "LINTING" -> <<"L","I","N","T","I","N","G">>
      [] b = "LOGIC" -> <<"L","O","G","I","C">>
      [] b = "SYNTAX" -> <<"S","Y","N","T","A","X">>
      [] b = "TYPE_ERROR" -> <<"T","Y","P","E","_","E","R","R","O","R">>

\* ', '.join(sorted(bug_types)), from the k-th value of BugTypes on
RECURSIVE JoinSorted(_, _)
JoinSorted(bug_types, k) ==
    IF k > Len(BugTypes) THEN <<>>
    ELSE IF BugTypes[k] \notin bug_types THEN JoinSorted(bug_types, k + 1)
    ELSE IF \E j \in (k + 1)..Len(BugTypes) : BugTypes[j] \in bug_types
    THEN BugTypeText(BugTypes[k]) \o STR_comma \o JoinSorted(bug_types, k + 1)
    ELSE BugTypeText(BugTypes[k])

\* s[:n]
Take(s, n) == SubSeq(s, 1, IF Len(s) < n THEN Len(s) ELSE n)

\* commit_push.py: _PROTECTED_BRANCHES
_PROTECTED_BRANCHES == {STR_main, STR_master, STR_develop, STR_release}

(***************************************************************************)
(* Inputs of a run: branch names and the texts of git errors.              *)
(***************************************************************************)
BR_main == <<"m","a","i","n">>
BR_Master == <<"M","a","s","t","e","r">>
BR_RELEASE == <<"R","E","L","E","A","S","E">>
BR_healing == <<"T","_","L","_","A","I","_","F","i","x">>
BR_MAIN_X == <<"M","A","I","N","_","X","_","A","I","_","F","i","x">>
BranchNames == {BR_main, BR_Master, BR_RELEASE, BR_healing, BR_MAIN_X}

\* the error message of a parsed test failure
MSG_assert == <<"a","s","s","e","r","t"," ","1"," ","=","="," ","2">>

EXC_auth == <<"a","u","t","h"," ","e","r","r","o","r">>
EXC_summary == <<"[","r","e","j","e","c","t","e","d","]">>
EXC_nothing == <<"n","o","t","h","i","n","g"," ","t","o"," ","c","o","m","m","i","t">>

\* What _do_commit does in one execution:
\*   ok             commit created, push landed, no bad flag
\*   commit_raises  an exception before a commit exists
\*   push_rejected  commit created, push_info[0] carries a bad flag
\*   push_raises    commit created, origin.push raises
GitOutcomes == {"ok", "commit_raises", "push_rejected", "push_raises"}

\* exit codes of the test command: passed, failed
ExitCodes == {0, 1}
BugTypesUsed == {"LOGIC"}
FixOutcomes == {"applied", "failed", "skipped"}
\* total run time, in seconds: just under the speed threshold, and at it
TimesSecs == { SCORE_SPEED_THRESHOLD_SECS - 1, SCORE_SPEED_THRESHOLD_SECS }
CiOutcomes == {"passed", "failed", "no_ci"}
None == "None"

(***************************************************************************)
(* The AgentState dictionary.                                              *)
(***************************************************************************)
\* state.get(k, d)
Get(s, k, d) == IF k \in DOMAIN s THEN s[k] ELSE d

\* bool(x) of an optional string: None (absent) and "" are falsy
Truthy(s, k) == k \in DOMAIN s /\ s[k] # <<>>

\* LangGraph merges the partial dictionary a node returns into the state
Merge(s, update) == update @@ s

\* run_agent_graph: initial_state
initial_state(branch_name, max_iterations) ==
    [ branch_name |-> branch_name,
      max_iterations |-> max_iterations,
      iteration |-> 1,
      current_node |-> "repo_scanner",
      status |-> "running",
      fixes |-> <<>>,
      ci_runs |-> <<>>,
      total_commits |-> 0,
      pushed_this_iteration |-> FALSE ]

(***************************************************************************)
(* Routing predicates (builder.py).                                        *)
(***************************************************************************)
\* should_retry without the budget clause
should_retry_NoBudget(s) ==
    LET ci_status == Get(s, "current_ci_status", "failed")
        test_exit == Get(s, "test_exit_code", 1)
        workflow_created == Get(s, "ci_workflow_created", FALSE)
    IN  IF ci_status = "no_ci" /\ ~workflow_created THEN "create_workflow"
        ELSE IF ci_status = "passed" /\ test_exit = 0 THEN "scorer"
        ELSE IF Truthy(s, "quarantine_reason") THEN "scorer"
        ELSE "retry"

\* should_retry with the budget clause tested before the bootstrap clause
should_retry_BudgetFirst(s) ==
    LET ci_status == Get(s, "current_ci_status", "failed")
        test_exit == Get(s, "test_exit_code", 1)
        iteration == Get(s, "iteration", 1)
        max_iter == Get(s, "max_iterations", MAX_ITERATIONS)
        workflow_created == Get(s, "ci_workflow_created", FALSE)
    IN  IF iteration >= max_iter THEN "scorer"
        ELSE IF ci_status = "no_ci" /\ ~workflow_created THEN "create_workflow"
        ELSE IF ci_status = "passed" /\ test_exit = 0 THEN "scorer"
        ELSE IF Truthy(s, "quarantine_reason") THEN "scorer"
        ELSE "retry"

\* should_retry with the bootstrap clause not looking at ci_workflow_created
should_retry_AlwaysBootstrap(s) ==
    LET ci_status == Get(s, "current_ci_status", "failed")
        test_exit == Get(s, "test_exit_code", 1)
        iteration == Get(s, "iteration", 1)
        max_iter == Get(s, "max_iterations", MAX_ITERATIONS)
    IN  IF ci_status = "no_ci" THEN "create_workflow"
        ELSE IF ci_status = "passed" /\ test_exit = 0 THEN "scorer"
        ELSE IF Truthy(s, "quarantine_reason") THEN "scorer"
        ELSE IF iteration >= max_iter THEN "scorer"
        ELSE "retry"

\* should_retry ending the run on a passed CI whatever the local exit code
should_retry_PassedCiEnds(s) ==
    LET ci_status == Get(s, "current_ci_status", "failed")
        iteration == Get(s, "iteration", 1)
        max_iter == Get(s, "max_iterations", MAX_ITERATIONS)
        workflow_created == Get(s, "ci_workflow_created", FALSE)
    IN  IF ci_status = "no_ci" /\ ~workflow_created THEN "create_workflow"
        ELSE IF ci_status = "passed" THEN "scorer"
        ELSE IF Truthy(s, "quarantine_reason") THEN "scorer"
        ELSE IF iteration >= max_iter THEN "scorer"
        ELSE "retry"

should_retry(s) ==
    LET ci_status == Get(s, "current_ci_status", "failed")
        test_exit == Get(s, "test_exit_code", 1)
        iteration == Get(s, "iteration", 1)
        max_iter == Get(s, "max_iterations", MAX_ITERATIONS)
        workflow_created == Get(s, "ci_workflow_created", FALSE)
    IN  IF ci_status = "no_ci" /\ ~workflow_created THEN "create_workflow"
        ELSE IF ci_status = "passed" /\ test_exit = 0 THEN "scorer"
        ELSE IF Truthy(s, "quarantine_reason") THEN "scorer"
        ELSE IF iteration >= max_iter THEN "scorer"
        ELSE "retry"

should_fix(s) ==
    LET failures == Get(s, "failures", <<>>)
        exit_code == Get(s, "test_exit_code", 1)
    IN  IF exit_code = 0 \/ failures = <<>> THEN "scorer" ELSE "fix_generator"

\* should_monitor_ci without the pushed_this_iteration test
should_monitor_ci_IgnoresPushedFlag(s) ==
    LET error == Get(s, "error_message", <<>>)
    IN  IF error # <<>> /\ Contains(Lower(error), STR_commit_push_failed) THEN "scorer"
        ELSE "ci_monitor"

\* should_monitor_ci without error.lower()
should_monitor_ci_CaseSensitive(s) ==
    LET error == Get(s, "error_message", <<>>)
    IN  IF error # <<>> /\ Contains(error, STR_commit_push_failed) THEN "scorer"
        ELSE IF ~Get(s, "pushed_this_iteration", FALSE) THEN "scorer"
        ELSE "ci_monitor"

should_monitor_ci(s) ==
    LET error == Get(s, "error_message", <<>>)
    IN  IF error # <<>> /\ Contains(Lower(error), STR_commit_push_failed) THEN "scorer"
        ELSE IF ~Get(s, "pushed_this_iteration", FALSE) THEN "scorer"
        ELSE "ci_monitor"

\* the retry edge wired straight to test_runner, past increment_iteration
RetryTarget_SkipsIncrement(label) ==
    CASE label = "retry" -> "test_runner"
      [] label = "create_workflow" -> "ci_workflow_creator"
      [] label = "scorer" -> "scorer"

\* build_agent_graph: the mapping of should_retry's labels to nodes
RetryTarget(label) ==
    CASE label = "retry" -> "increment_iteration"
      [] label = "create_workflow" -> "ci_workflow_creator"
      [] label = "scorer" -> "scorer"

(***************************************************************************)
(* Nodes.  Each operator is the partial dictionary the node returns; what  *)
(* the node does outside the state (git, journal, results.json) is in the  *)
(* action that executes it.                                                *)
(***************************************************************************)
\* repo_scanner.py: repo_scanner (the detected language, framework and test
\* files are not read by any routing predicate and are left out)
repo_scanner(s) == [current_node |-> "repo_scanner"]

\* test_runner.py: test_runner
test_runner(s, exit_code) ==
    [test_exit_code |-> exit_code, current_node |-> "test_runner"]

\* ast_analyzer without the early return for a suite that passed
ast_analyzer_NoEarlyReturn(s, parsed) ==
    [failures |-> parsed, current_node |-> "ast_analyzer"]

\* ast_analyzer.py: ast_analyzer; parsed is what the parsers (and the
\* completion-service fallback) extract from the output of a failed suite
ast_analyzer(s, parsed) ==
    IF Get(s, "test_exit_code", 0) = 0
    THEN [failures |-> <<>>, current_node |-> "ast_analyzer"]
    ELSE [failures |-> parsed, current_node |-> "ast_analyzer"]

\* state.py: FixRecord as fix_generator creates it for one failure
FixRecord(failure, fix_status) ==
    [ bug_type |-> failure.bug_type,
      description |-> failure.error_message,
      status |-> fix_status,
      commit_sha |-> None,
      commit_message |-> <<>> ]

\* the index of the first failure that gets no patch (or the last index)
FirstMiss(outcomes) ==
    LET misses == {i \in 1..Len(outcomes) : outcomes[i] # "applied"}
    IN  IF misses = {} THEN Len(outcomes)
        ELSE CHOOSE i \in misses : \A j \in misses : i <= j

\* fix_generator leaving its loop at the first failure it cannot patch
fix_generator_StopsAtFirstMiss(s, outcomes) ==
    LET failures == Get(s, "failures", <<>>)
        existing_fixes == Get(s, "fixes", <<>>)
        new_fixes == [i \in 1..FirstMiss(outcomes) |-> FixRecord(failures[i], outcomes[i])]
    IN  IF failures = <<>>
        THEN [current_node |-> "fix_generator"]
        ELSE [fixes |-> existing_fixes \o new_fixes, current_node |-> "fix_generator"]

\* fix_generator.py: fix_generator; outcomes[i] is the status the i-th
\* failure's record ends with (applied, failed: no patch, skipped: no file)
fix_generator(s, outcomes) ==
    LET failures == Get(s, "failures", <<>>)
        existing_fixes == Get(s, "fixes", <<>>)
        new_fixes == [i \in 1..Len(failures) |-> FixRecord(failures[i], outcomes[i])]
    IN  IF failures = <<>>
        THEN [current_node |-> "fix_generator"]
        ELSE [fixes |-> existing_fixes \o new_fixes, current_node |-> "fix_generator"]

\* the protected-branch test without branch_name.lower()
IsProtectedBranch_CaseSensitive(branch_name) == branch_name \in _PROTECTED_BRANCHES

\* commit_push.py: the protected-branch test
IsProtectedBranch(branch_name) == Lower(branch_name) \in _PROTECTED_BRANCHES

\* commit_push.py: the text of the quarantine reason
BlockedError(branch_name) == STR_BLOCKED \o branch_name \o STR_quote

\* commit_push.py: applied = [f for f in fixes if f.status == "applied" and not f.commit_sha]
PendingApplied(fixes) ==
    {i \in 1..Len(fixes) : fixes[i].status = "applied" /\ fixes[i].commit_sha = None}

\* the exception _do_commit ends with, as text
ExcText(outcome) ==
    CASE outcome = "commit_raises" -> EXC_nothing
      [] outcome = "push_rejected" -> STR_Push_rejected \o EXC_summary
      [] outcome = "push_raises" -> EXC_auth

\* commit_push.py: error = f"Git commit/push failed: {exc}"
PushFailedError(exc) == STR_Git_commit_push_failed \o exc

\* the failure path without the loop that marks the batch failed
MarkFailed_Noop(fixes, applied) == fixes

\* commit_push.py: for f in applied: f.status = "failed"
MarkFailed(fixes, applied) ==
    [i \in 1..Len(fixes) |->
        IF i \in applied THEN [fixes[i] EXCEPT !.status = "failed"] ELSE fixes[i]]

\* commit_push.py: msg, the message of the commit that carries the batch
CommitMessage(fixes, applied, iteration) ==
    STR_AI_AGENT_Fix \o StrOfInt(Cardinality(applied)) \o STR_issues
        \o JoinSorted({fixes[i].bug_type : i \in applied}, 1)
        \o STR_iter \o StrOfInt(iteration) \o STR_close

\* commit_push.py: the commit_message given to a committed FixRecord
FixMessage(f) ==
    STR_AI_AGENT_Fix \o BugTypeText(f.bug_type) \o STR_colon \o Take(f.description, MaxDescription)

\* commit_push.py: for f in applied: f.commit_sha = ...; f.commit_message = ...
AssignSha(fixes, applied, commit_sha) ==
    [i \in 1..Len(fixes) |->
        IF i \in applied
        THEN [fixes[i] EXCEPT !.commit_sha = commit_sha, !.commit_message = FixMessage(fixes[i])]
        ELSE fixes[i]]

\* _do_commit counting two commits for one
CommitsAdded_Two == 1 + 1

\* commit_push.py: _do_commit returns (commit_sha, 1)
CommitsAdded == 1

\* commit_push.py: commit_push
commit_push(s, outcome, commit_sha) ==
    LET branch_name == s["branch_name"]
        fixes == Get(s, "fixes", <<>>)
        total_commits == Get(s, "total_commits", 0)
        applied == PendingApplied(fixes)
    IN  IF IsProtectedBranch(branch_name)
        THEN [ error_message |-> BlockedError(branch_name),
               status |-> "quarantined",
               quarantine_reason |-> BlockedError(branch_name),
               current_node |-> "commit_push",
               pushed_this_iteration |-> FALSE ]
        ELSE IF applied = {}
        THEN [current_node |-> "commit_push", pushed_this_iteration |-> FALSE]
        ELSE IF outcome # "ok"
        THEN [ fixes |-> MarkFailed(fixes, applied),
               error_message |-> PushFailedError(ExcText(outcome)),
               current_node |-> "commit_push",
               pushed_this_iteration |-> FALSE ]
        ELSE [ fixes |-> AssignSha(fixes, applied, commit_sha),
               total_commits |-> total_commits + CommitsAdded,
               current_node |-> "commit_push",
               pushed_this_iteration |-> TRUE ]

\* the short SHA of the n-th commit created in the working copy
ShaOf(n) == "c" \o ToString(n)

\* commit_push.py: _do_commit, what it does to the working copy and the remote
\* (it runs only past the protected-branch and nothing-to-commit returns)
_do_commit(r, s, outcome) ==
    IF IsProtectedBranch(s["branch_name"]) \/ PendingApplied(Get(s, "fixes", <<>>)) = {}
    THEN r
    ELSE [ commits |-> r.commits + (IF outcome = "commit_raises" THEN 0 ELSE 1),
           messages |-> IF outcome = "commit_raises" THEN r.messages
                        ELSE Append(r.messages,
                                    CommitMessage(s["fixes"], PendingApplied(s["fixes"]),
                                                  Get(s, "iteration", 1))),
           pushes |-> r.pushes + (IF outcome = "ok" THEN 1 ELSE 0),
           pushed_branches |-> IF outcome = "ok"
                               THEN r.pushed_branches \cup {s["branch_name"]}
                               ELSE r.pushed_branches ]

\* state.py: CiRun
CiRun(iteration, ci_status, regression) ==
    [iteration |-> iteration, status |-> ci_status, regression |-> regression]

\* the SHA of the most recent batch of committed fixes
LastSha(fixes) ==
    LET committed == {i \in 1..Len(fixes) : fixes[i].commit_sha # None}
    IN  IF committed = {} THEN None
        ELSE fixes[CHOOSE i \in committed : \A j \in committed : j <= i].commit_sha

\* ci_monitor: on a regression the last batch's FixRecords become rolled_back
RollBack(fixes) ==
    [i \in 1..Len(fixes) |->
        IF fixes[i].commit_sha # None /\ fixes[i].commit_sha = LastSha(fixes)
        THEN [fixes[i] EXCEPT !.status = "rolled_back"] ELSE fixes[i]]

\* ci_monitor: polls the forge until the run is terminal, appends the CiRun
ci_monitor(s, ci_status, regression) ==
    LET ci_runs == Get(s, "ci_runs", <<>>)
        fixes == Get(s, "fixes", <<>>)
    IN  [ ci_runs |-> Append(ci_runs, CiRun(Get(s, "iteration", 1), ci_status, regression)),
          current_ci_status |-> ci_status,
          regression_detected |-> regression,
          fixes |-> IF regression THEN RollBack(fixes) ELSE fixes,
          current_node |-> "ci_monitor" ]

\* ci_workflow_creator: commits a workflow file, once per run
ci_workflow_creator(s) ==
    [ci_workflow_created |-> TRUE, current_node |-> "ci_workflow_creator"]

\* builder.py: increment_iteration
increment_iteration(s) ==
    [iteration |-> Get(s, "iteration", 1) + 1, current_node |-> "retry"]

\* the final status rule with the quarantine clause tested first
FinalStatus_QuarantineFirst(s) ==
    IF Truthy(s, "quarantine_reason") THEN "QUARANTINED"
    ELSE IF Get(s, "current_ci_status", "failed") = "passed" \/ Get(s, "test_exit_code", 1) = 0
    THEN "PASSED"
    ELSE "FAILED"

\* scorer.py: the final status rule
FinalStatus(s) ==
    IF Get(s, "current_ci_status", "failed") = "passed" \/ Get(s, "test_exit_code", 1) = 0
    THEN "PASSED"
    ELSE IF Truthy(s, "quarantine_reason") THEN "QUARANTINED"
    ELSE "FAILED"

\* final_status.lower()
LowerStatus(final_status) ==
    CASE final_status = "PASSED" -> "passed"
      [] final_status = "QUARANTINED" -> "quarantined"
      [] final_status = "FAILED" -> "failed"

\* _public_ci_status passing every status through
_public_ci_status_Identity(ci_status) == ci_status

\* scorer.py: _public_ci_status
_public_ci_status(ci_status) == IF ci_status = "no_ci" THEN "failed" ELSE ci_status

\* round(num / den, 1) in tenths, den > 0: to the nearest tenth, ties to even
RoundTenths(num, den) ==
    LET q == (Tenths * num) \div den
        r == (Tenths * num) - q * den
    IN  IF 2 * r < den THEN q
        ELSE IF 2 * r > den THEN q + 1
        ELSE IF q % 2 = 0 THEN q ELSE q + 1

\* max(0.0, x)
Max0(x) == IF x < 0 THEN 0 ELSE x

\* _compute_score granting the speed bonus to every fast run
_compute_score_BonusForSpeedAlone(total_time_secs, total_commits, total_failures, total_fixes_applied, tests_passed) ==
    LET speed_bonus == IF total_time_secs < SCORE_SPEED_THRESHOLD_SECS THEN SCORE_SPEED_BONUS ELSE 0
        efficiency_penalty ==
            SCORE_EFFICIENCY_PENALTY_PER_COMMIT * Max0(total_commits - SCORE_EFFICIENCY_FREE_COMMITS)
        scaled == total_failures > 0 /\ ~tests_passed
        num == IF scaled THEN SCORE_BASE * total_fixes_applied ELSE SCORE_BASE
        den == IF scaled THEN total_failures ELSE 1
    IN  [ base |-> RoundTenths(num, den),
          speed_bonus |-> Tenths * speed_bonus,
          efficiency_penalty |-> Tenths * efficiency_penalty,
          total |-> Max0(RoundTenths(num + (speed_bonus - efficiency_penalty) * den, den)) ]

\* scorer.py: _compute_score; the ScoreBreakdown's fields are in tenths
_compute_score(total_time_secs, total_commits, total_failures, total_fixes_applied, tests_passed) ==
    LET fast == total_time_secs < SCORE_SPEED_THRESHOLD_SECS
        speed_bonus ==
            IF tests_passed
            THEN (IF fast THEN SCORE_SPEED_BONUS ELSE 0)
            ELSE (IF total_fixes_applied > 0 /\ fast THEN SCORE_SPEED_BONUS ELSE 0)
        over == total_commits - SCORE_EFFICIENCY_FREE_COMMITS
        efficiency_penalty == SCORE_EFFICIENCY_PENALTY_PER_COMMIT * Max0(over)
        \* base as the fraction num / den
        scaled == total_failures > 0 /\ ~tests_passed
        num == IF scaled THEN SCORE_BASE * total_fixes_applied ELSE SCORE_BASE
        den == IF scaled THEN total_failures ELSE 1
    IN  [ base |-> RoundTenths(num, den),
          speed_bonus |-> Tenths * speed_bonus,
          efficiency_penalty |-> Tenths * efficiency_penalty,
          total |-> Max0(RoundTenths(num + (speed_bonus - efficiency_penalty) * den, den)) ]

\* a row of results["fixes"] without the default commit message
FixRow_NoDefaultMessage(f) ==
    [ bug_type |-> f.bug_type,
      commit_message |-> f.commit_message,
      status |-> IF f.status = "applied" THEN "FIXED" ELSE "FAILED" ]

\* scorer.py: one row of results["fixes"]
FixRow(f) ==
    [ bug_type |-> f.bug_type,
      commit_message |-> IF f.commit_message # <<>> THEN f.commit_message
                         ELSE STR_AI_AGENT_Fix \o BugTypeText(f.bug_type),
      status |-> IF f.status = "applied" THEN "FIXED" ELSE "FAILED" ]

\* scorer.py: the results dictionary written to results.json
\* total_failures counting only the records that stayed failed
total_failures_Unfixed(fixes) == Cardinality({i \in 1..Len(fixes) : fixes[i].status = "failed"})

total_failures(fixes) == Cardinality({i \in 1..Len(fixes) : fixes[i].status # "rolled_back"})
\* total_fixes_applied counting the committed records
total_fixes_applied_Committed(fixes) ==
    Cardinality({i \in 1..Len(fixes) : fixes[i].commit_sha # None})

total_fixes_applied(fixes) == Cardinality({i \in 1..Len(fixes) : fixes[i].status = "applied"})

\* scorer.py: score = _compute_score(...)
score(s, total_time_secs) ==
    _compute_score(total_time_secs, Get(s, "total_commits", 0),
                   total_failures(Get(s, "fixes", <<>>)),
                   total_fixes_applied(Get(s, "fixes", <<>>)),
                   FinalStatus(s) = "PASSED")

results(s, total_time_secs) ==
    LET fixes == Get(s, "fixes", <<>>)
        ci_runs == Get(s, "ci_runs", <<>>)
    IN  [ final_status |-> FinalStatus(s),
          total_failures |-> total_failures(fixes),
          total_fixes |-> total_fixes_applied(fixes),
          total_time_secs |-> total_time_secs,
          score |-> score(s, total_time_secs),
          fixes |-> [i \in 1..Len(fixes) |-> FixRow(fixes[i])],
          ci_log |-> [i \in 1..Len(ci_runs) |->
                        [ iteration |-> ci_runs[i].iteration,
                          status |-> _public_ci_status(ci_runs[i].status),
                          regression |-> ci_runs[i].regression ]] ]

\* scorer.py: the row the scorer persists through update_run_status
ScorerRow(s, total_time_secs) ==
    [ status |-> LowerStatus(FinalStatus(s)),
      base_score |-> score(s, total_time_secs).base \div Tenths,
      final_score |-> score(s, total_time_secs).total \div Tenths,
      total_failures |-> results(s, total_time_secs).total_failures,
      total_fixes |-> results(s, total_time_secs).total_fixes,
      total_commits |-> Get(s, "total_commits", 0),
      total_iterations |-> Get(s, "iteration", 1) ]

\* scorer.py: scorer
scorer(s, total_time_secs) ==
    [ score |-> score(s, total_time_secs),
      total_time_secs |-> total_time_secs,
      status |-> LowerStatus(FinalStatus(s)),
      current_node |-> "scorer" ]

(***************************************************************************)
(* The orchestrator: run_agent_graph executes one node per step, merges    *)
(* what it returns and follows the edge (build_agent_graph).               *)
(***************************************************************************)
\* events.py: what emit_status_update, emit_run_complete and the crash
\* handler's emit_thought put on the run's event stream
StatusUpdate(status, node, iteration) ==
    [type |-> "status_update", status |-> status, node |-> node, iteration |-> iteration]

RunComplete(final_status, breakdown) ==
    [type |-> "run_complete", final_status |-> final_status, score |-> breakdown]

CrashThought(exc) ==
    [type |-> "thought", node |-> "error", exc |-> exc, step_index |-> 999]

Nodes ==
    { "repo_scanner", "test_runner", "ast_analyzer", "fix_generator", "commit_push",
      "ci_monitor", "ci_workflow_creator", "increment_iteration", "scorer" }

\* graph.ainvoke(..., config={"recursion_limit": _RECURSION_LIMIT})
CanStep == steps < _RECURSION_LIMIT

Failures == [bug_type : BugTypesUsed, error_message : {MSG_assert}]
FailureLists == UNION {[1..n -> Failures] : n \in 0..MaxFailures}
OutcomeLists(n) == [1..n -> FixOutcomes]

\* app/state.py: InMemoryRunStateStore.__init__, self._runs = {}
EmptyStore == [run_id \in {} |-> None]

\* the response of a request that has not been answered
NoResponse == [status_code |-> 0, content |-> <<>>]

\* no request has been received
NoRequests ==
    [k \in 1..MaxRequests |->
        [phase |-> "none", kind |-> "none", body |-> <<>>, seen |-> {},
         response |-> NoResponse]]

\* llm.py: _lock = threading.Lock(), _cycle = None; db.py: _pool = None
NoLlm ==
    [GROQ_API_KEYS |-> <<>>, OPENAI_API_KEY |-> "", lock |-> 0, cycle |-> <<>>,
     inits |-> 0, handed |-> <<>>]
NoDb == [pool |-> 0, created |-> 0]
NoTasks == [t \in 1..MaxTasks |-> [at |-> "idle", calls |-> 0, got |-> <<>>]]

EmptyRepo == [commits |-> 0, messages |-> <<>>, pushes |-> 0, pushed_branches |-> {}]

\* run_agent_graph up to graph.ainvoke: the journal row is set to running
InitRun(branch_name, max_iterations) ==
    /\ state = initial_state(branch_name, max_iterations)
    /\ pc = "repo_scanner"
    /\ steps = 0
    /\ repo = EmptyRepo
    /\ journal = <<[status |-> "running"]>>
    /\ artifact = <<>>
    /\ last_route = "none"
    /\ publisher_runs = 0
    /\ events = <<StatusUpdate("running", "repo_scanner", 0)>>
    /\ run_state_store = EmptyStore
    /\ requests = NoRequests
    /\ llm = NoLlm
    /\ db = NoDb
    /\ tasks = NoTasks

\* every branch name with every budget up to MaxIter; BR_MAIN_X, which differs
\* from BR_healing only in how it is spelt, with the smallest budget
\* Each node is an action Do_<node>: what the node does to the state, the
\* working copy, the journal and the artifact, and the edge the graph follows.
\* Step_<node> adds the status updates and the run_complete event the node
\* puts on the event stream; SpecEvents adds every event with its step_index.
Init ==
    \E b \in BranchNames, n \in MinBudget..MaxIter :
        /\ b = BR_MAIN_X => n = MinBudget
        /\ InitRun(b, n)

Do_repo_scanner ==
    /\ pc = "repo_scanner" /\ CanStep
    /\ state' = Merge(state, repo_scanner(state))
    /\ pc' = "test_runner"
    /\ steps' = steps + 1
    /\ UNCHANGED <<repo, journal, artifact, last_route, publisher_runs, run_state_store, requests, llm, db, tasks>>

Step_repo_scanner == Do_repo_scanner /\ UNCHANGED events

Do_test_runner(exit_code) ==
    /\ pc = "test_runner" /\ CanStep
    /\ state' = Merge(state, test_runner(state, exit_code))
    /\ pc' = "ast_analyzer"
    /\ steps' = steps + 1
    /\ UNCHANGED <<repo, journal, artifact, last_route, publisher_runs, run_state_store, requests, llm, db, tasks>>

Step_test_runner(exit_code) == Do_test_runner(exit_code) /\ UNCHANGED events

Do_ast_analyzer(parsed) ==
    /\ pc = "ast_analyzer" /\ CanStep
    /\ state' = Merge(state, ast_analyzer(state, parsed))
    /\ last_route' = should_fix(state')
    /\ pc' = last_route'
    /\ steps' = steps + 1
    /\ UNCHANGED <<repo, journal, artifact, publisher_runs, run_state_store, requests, llm, db, tasks>>

Step_ast_analyzer(parsed) == Do_ast_analyzer(parsed) /\ UNCHANGED events

Do_fix_generator(outcomes) ==
    /\ pc = "fix_generator" /\ CanStep
    /\ Len(outcomes) = Len(Get(state, "failures", <<>>))
    /\ state' = Merge(state, fix_generator(state, outcomes))
    /\ pc' = "commit_push"
    /\ steps' = steps + 1
    /\ UNCHANGED <<repo, journal, artifact, last_route, publisher_runs, run_state_store, requests, llm, db, tasks>>

Step_fix_generator(outcomes) == Do_fix_generator(outcomes) /\ UNCHANGED events

Do_commit_push(outcome) ==
    /\ pc = "commit_push" /\ CanStep
    /\ state' = Merge(state, commit_push(state, outcome, ShaOf(repo.commits + 1)))
    /\ repo' = _do_commit(repo, state, outcome)
    /\ publisher_runs' = publisher_runs + 1
    /\ last_route' = should_monitor_ci(state')
    /\ pc' = last_route'
    /\ steps' = steps + 1
    /\ UNCHANGED <<journal, artifact, run_state_store, requests, llm, db, tasks>>

Step_commit_push(outcome) == Do_commit_push(outcome) /\ UNCHANGED events

Do_ci_monitor(ci_status, regression) ==
    /\ pc = "ci_monitor" /\ CanStep
    /\ regression => Get(state, "ci_runs", <<>>) # <<>>
    /\ state' = Merge(state, ci_monitor(state, ci_status, regression))
    /\ last_route' = should_retry(state')
    /\ pc' = RetryTarget(last_route')
    /\ steps' = steps + 1
    /\ UNCHANGED <<repo, journal, artifact, publisher_runs, run_state_store, requests, llm, db, tasks>>

Step_ci_monitor(ci_status, regression) == Do_ci_monitor(ci_status, regression) /\ UNCHANGED events

Do_ci_workflow_creator ==
    /\ pc = "ci_workflow_creator" /\ CanStep
    /\ state' = Merge(state, ci_workflow_creator(state))
    /\ repo' = [ repo EXCEPT !.commits = repo.commits + 1,
                             !.pushes = repo.pushes + 1,
                             !.pushed_branches = repo.pushed_branches \cup {state["branch_name"]} ]
    /\ pc' = "ci_monitor"
    /\ steps' = steps + 1
    /\ UNCHANGED <<journal, artifact, last_route, publisher_runs, run_state_store, requests, llm, db, tasks>>

Step_ci_workflow_creator == Do_ci_workflow_creator /\ UNCHANGED events

Do_increment_iteration ==
    /\ pc = "increment_iteration" /\ CanStep
    /\ state' = Merge(state, increment_iteration(state))
    /\ publisher_runs' = 0
    /\ pc' = "test_runner"
    /\ steps' = steps + 1
    /\ UNCHANGED <<repo, journal, artifact, last_route, run_state_store, requests, llm, db, tasks>>

Step_increment_iteration ==
    /\ Do_increment_iteration
    /\ events' = Append(events, StatusUpdate("running", "test_runner", state'["iteration"]))

Do_scorer(total_time_secs) ==
    /\ pc = "scorer" /\ CanStep
    /\ artifact' = Append(artifact, results(state, total_time_secs))
    /\ journal' = Append(journal, ScorerRow(state, total_time_secs))
    /\ state' = Merge(state, scorer(state, total_time_secs))
    /\ pc' = "END"
    /\ steps' = steps + 1
    /\ UNCHANGED <<repo, last_route, publisher_runs, run_state_store, requests, llm, db, tasks>>

Step_scorer(total_time_secs) ==
    /\ Do_scorer(total_time_secs)
    /\ events' = Append(events, RunComplete(FinalStatus(state), score(state, total_time_secs)))

\* run_agent_graph: except Exception -> update_run_status(run_id, "failed"); raise
CrashHandler(exc) ==
    /\ journal' = Append(journal, [status |-> "failed"])
    /\ events' = events \o <<StatusUpdate("failed", "error", 0), CrashThought(exc)>>
    /\ pc' = "crashed"
    /\ UNCHANGED <<state, steps, repo, artifact, last_route, publisher_runs, run_state_store, requests, llm, db, tasks>>

\* the scorer raises after it has written results.json, persisted its row
\* and emitted run_complete (insert_trace or the last emit_thought fails)
ScorerRaises(total_time_secs) ==
    /\ pc = "scorer" /\ CanStep
    /\ artifact' = Append(artifact, results(state, total_time_secs))
    /\ journal' = journal \o <<ScorerRow(state, total_time_secs), [status |-> "failed"]>>
    /\ events' = events \o << RunComplete(FinalStatus(state), score(state, total_time_secs)),
                              StatusUpdate("failed", "error", 0), CrashThought("node error") >>
    /\ pc' = "crashed"
    /\ UNCHANGED <<state, steps, repo, last_route, publisher_runs, run_state_store, requests, llm, db, tasks>>

\* a node raises an error it does not catch
NodeRaises ==
    /\ pc \in Nodes /\ CanStep
    /\ CrashHandler("node error")

\* the graph has not reached END within the recursion limit
GraphRecursionError ==
    /\ pc \in Nodes /\ ~CanStep
    /\ CrashHandler("GraphRecursionError")

Next ==
    \/ Step_repo_scanner
    \/ \E exit_code \in ExitCodes : Step_test_runner(exit_code)
    \/ \E parsed \in FailureLists : Step_ast_analyzer(parsed)
    \/ \E outcomes \in UNION {OutcomeLists(n) : n \in 0..MaxFailures} : Step_fix_generator(outcomes)
    \/ \E outcome \in GitOutcomes : Step_commit_push(outcome)
    \/ \E ci_status \in CiOutcomes, regression \in BOOLEAN : Step_ci_monitor(ci_status, regression)
    \/ Step_ci_workflow_creator
    \/ Step_increment_iteration
    \/ \E total_time_secs \in TimesSecs : Step_scorer(total_time_secs)
    \/ \E total_time_secs \in TimesSecs : ScorerRaises(total_time_secs)
    \/ NodeRaises

\* Under Spec's budgets (at most MaxIter iterations) a run takes far fewer
\* than _RECURSION_LIMIT steps; SpecBudget explores the limit.
Spec == Init /\ [][Next]_vars

(***************************************************************************)
(* SpecBudget: the run whose fixes never converge, for every iteration     *)
(* budget the request validation admits.  Every iteration has a failing    *)
(* test, patches it, pushes the fix and sees the CI run fail.              *)
(***************************************************************************)
InitBudget == \E n \in MinBudget..MaxBudget : InitRun(BR_healing, n)

NextBudget ==
    \/ Step_repo_scanner
    \/ Step_test_runner(1)
    \/ Step_ast_analyzer(<<[bug_type |-> "LOGIC", error_message |-> MSG_assert]>>)
    \/ Step_fix_generator(<<"applied">>)
    \/ Step_commit_push("ok")
    \/ Step_ci_monitor("failed", FALSE)
    \/ Step_increment_iteration
    \/ \E total_time_secs \in TimesSecs : Step_scorer(total_time_secs)
    \/ GraphRecursionError

SpecBudget == InitBudget /\ [][NextBudget]_vars

(***************************************************************************)
(* SpecRouting: the routing predicates as pure functions, applied to       *)
(* dictionaries in which every key they read is absent or holds any of a   *)
(* few values.                                                             *)
(***************************************************************************)
EmptyDict == [k \in {} |-> 0]
Optional(k, values) == {EmptyDict} \cup {k :> v : v \in values}

CiStatuses == {"pending", "running", "passed", "failed", "no_ci"}

MSG_upper == <<"G","I","T"," ","C","O","M","M","I","T","/","P","U","S","H"," ","F","A","I","L","E","D">>
MSG_other == <<"p","u","s","h"," ","f","a","i","l","e","d">>
ErrorMessages ==
    { <<>>, PushFailedError(EXC_auth), MSG_upper, MSG_other, BlockedError(BR_main) }

RetryInputs ==
    { a @@ b @@ c @@ d @@ e @@ f :
        a \in Optional("current_ci_status", CiStatuses),
        b \in Optional("test_exit_code", ExitCodes),
        c \in Optional("iteration", 1..(MAX_ITERATIONS + 1)),
        d \in Optional("max_iterations", 1..(MaxIter + 1)),
        e \in Optional("quarantine_reason", {<<>>, BlockedError(BR_main)}),
        f \in Optional("ci_workflow_created", BOOLEAN) }

MonitorInputs ==
    { a @@ b :
        a \in Optional("error_message", ErrorMessages),
        b \in Optional("pushed_this_iteration", BOOLEAN) }

InitRouting ==
    /\ state \in RetryInputs \cup MonitorInputs
    /\ pc = "input"
    /\ steps = 0
    /\ repo = EmptyRepo
    /\ journal = <<>>
    /\ artifact = <<>>
    /\ last_route = "none"
    /\ publisher_runs = 0
    /\ events = <<>>
    /\ run_state_store = EmptyStore
    /\ requests = NoRequests
    /\ llm = NoLlm
    /\ db = NoDb
    /\ tasks = NoTasks

Eval_should_retry ==
    /\ pc = "input"
    /\ last_route' = should_retry(state)
    /\ pc' = "should_retry"
    /\ UNCHANGED <<state, steps, repo, journal, artifact, publisher_runs, events, run_state_store, requests, llm, db, tasks>>

Eval_should_monitor_ci ==
    /\ pc = "input"
    /\ last_route' = should_monitor_ci(state)
    /\ pc' = "should_monitor_ci"
    /\ UNCHANGED <<state, steps, repo, journal, artifact, publisher_runs, events, run_state_store, requests, llm, db, tasks>>

NextRouting == Eval_should_retry \/ Eval_should_monitor_ci

SpecRouting == InitRouting /\ [][NextRouting]_vars

(***************************************************************************)
(* SpecScorer: the scorer applied to states in which the fields it reads   *)
(* hold any of a few values: every FixStatus and CiStatus, commit counts   *)
(* on both sides of the free allowance, the three final statuses.          *)
(***************************************************************************)
FixStatuses == {"applied", "failed", "rolled_back", "skipped"}

\* a FixRecord as it can reach the scorer: as fix_generator made it, or
\* with the SHA and message commit_push gave it
InputFix(fix_status, committed) ==
    LET f == FixRecord([bug_type |-> "LOGIC", error_message |-> MSG_assert], fix_status)
    IN  IF committed
        THEN [f EXCEPT !.commit_sha = ShaOf(1), !.commit_message = FixMessage(f)]
        ELSE f

InputFixes == {InputFix(st, c) : st \in FixStatuses, c \in BOOLEAN}
FixLists == UNION {[1..n -> InputFixes] : n \in 0..MaxFixes}

CiRunLists ==
    UNION {[1..n -> {CiRun(1, st, FALSE) : st \in CiStatuses}] : n \in 0..MaxCiRuns}

\* none, the free allowance, one over it, enough to outweigh base and bonus
CommitCounts ==
    { 0, SCORE_EFFICIENCY_FREE_COMMITS, SCORE_EFFICIENCY_FREE_COMMITS + 1,
      SCORE_EFFICIENCY_FREE_COMMITS + SCORE_BASE }

ScoreInputs ==
    { a @@ b @@ c @@ d @@ e :
        a \in Optional("current_ci_status", {"passed", "failed"}),
        b \in Optional("test_exit_code", ExitCodes),
        c \in Optional("quarantine_reason", {BlockedError(BR_main)}),
        d \in {"total_commits" :> n : n \in CommitCounts},
        e \in {"fixes" :> f : f \in FixLists} }

CiLogInputs == {"ci_runs" :> r : r \in CiRunLists}

InitScorer ==
    /\ state \in ScoreInputs \cup CiLogInputs
    /\ pc = "scorer"
    /\ steps = 0
    /\ repo = EmptyRepo
    /\ journal = <<[status |-> "running"]>>
    /\ artifact = <<>>
    /\ last_route = "none"
    /\ publisher_runs = 0
    /\ events = <<>>
    /\ run_state_store = EmptyStore
    /\ requests = NoRequests
    /\ llm = NoLlm
    /\ db = NoDb
    /\ tasks = NoTasks

NextScorer ==
    \E total_time_secs \in TimesSecs \cup {SCORE_SPEED_THRESHOLD_SECS + 1} :
        Step_scorer(total_time_secs)

SpecScorer == InitScorer /\ [][NextScorer]_vars

(***************************************************************************)
(* The event stream with every thought.  emit_thought(run_id, node,        *)
(* message, step_index) is the one emitter that is given a step index;     *)
(* each node computes it from the iteration and its own offset.  The       *)
(* sources of ci_monitor and ci_workflow_creator are not in the            *)
(* repository, so the thoughts they emit are not on the modelled stream.   *)
(***************************************************************************)
Thought(node, step_index) ==
    [type |-> "thought", node |-> node, step_index |-> step_index]

\* repo_scanner.py: step = state.get("iteration", 0) * 10 + 1
Thoughts_repo_scanner(s) ==
    LET step == Get(s, "iteration", 0) * 10 + 1
    IN  <<Thought("repo_scanner", step), Thought("repo_scanner", step + 1)>>

\* test_runner.py: step = iteration * 10 + 3; the dependency installers and
\* the command fallbacks emit at step, the verdict at step + 1
Thoughts_test_runner(s, installs) ==
    LET step == Get(s, "iteration", 1) * 10 + 3
    IN  <<Thought("test_runner", step)>>
        \o (IF installs THEN <<Thought("test_runner", step)>> ELSE <<>>)
        \o <<Thought("test_runner", step + 1)>>

\* ast_analyzer.py: step = iteration * 10 + 4
Thoughts_ast_analyzer(s, fallback) ==
    LET step == Get(s, "iteration", 1) * 10 + 4
    IN  IF Get(s, "test_exit_code", 0) = 0
        THEN <<Thought("ast_analyzer", step), Thought("ast_analyzer", step + 1)>>
        ELSE <<Thought("ast_analyzer", step)>>
             \o (IF fallback THEN <<Thought("ast_analyzer", step + 1)>> ELSE <<>>)
             \o <<Thought("ast_analyzer", step + 2)>>

\* fix_generator.py: step = iteration * 10 + 5; the i-th failure (from 0)
\* emits at step + i + 1 unless its record is skipped
RECURSIVE FixThoughts(_, _, _)
FixThoughts(outcomes, step, i) ==
    IF i > Len(outcomes) THEN <<>>
    ELSE (IF outcomes[i] = "skipped" THEN <<>> ELSE <<Thought("fix_generator", step + i)>>)
         \o FixThoughts(outcomes, step, i + 1)

Thoughts_fix_generator(s, outcomes) ==
    LET step == Get(s, "iteration", 1) * 10 + 5
    IN  IF Get(s, "failures", <<>>) = <<>>
        THEN <<Thought("fix_generator", step)>>
        ELSE <<Thought("fix_generator", step)>> \o FixThoughts(outcomes, step, 1)

\* commit_push.py: step = iteration * 10 + 6
Thoughts_commit_push(s) ==
    LET step == Get(s, "iteration", 1) * 10 + 6
    IN  IF IsProtectedBranch(s["branch_name"]) \/ PendingApplied(Get(s, "fixes", <<>>)) = {}
        THEN <<Thought("commit_push", step)>>
        ELSE <<Thought("commit_push", step), Thought("commit_push", step + 1)>>

\* builder.py: increment_iteration emits at (iteration + 1) * 10
Thoughts_increment_iteration(s) ==
    <<Thought("retry", (Get(s, "iteration", 1) + 1) * 10)>>

\* scorer.py: step = iteration * 10 + 9; "Generated report.pdf" is emitted
\* at step when the report was written
Thoughts_scorer(s, pdf) ==
    LET step == Get(s, "iteration", 1) * 10 + 9
    IN  <<Thought("scorer", step)>>
        \o (IF pdf THEN <<Thought("scorer", step)>> ELSE <<>>)

Emit_repo_scanner ==
    /\ Do_repo_scanner
    /\ events' = events \o Thoughts_repo_scanner(state)

Emit_test_runner(exit_code, installs) ==
    /\ Do_test_runner(exit_code)
    /\ events' = events \o Thoughts_test_runner(state, installs)

\* the fallback has run whenever no failure came out of the analysis
Emit_ast_analyzer(parsed, fallback) ==
    /\ Do_ast_analyzer(parsed)
    /\ parsed = <<>> => fallback
    /\ events' = events \o Thoughts_ast_analyzer(state, fallback)

Emit_fix_generator(outcomes) ==
    /\ Do_fix_generator(outcomes)
    /\ events' = events \o Thoughts_fix_generator(state, outcomes)

Emit_commit_push(outcome) ==
    /\ Do_commit_push(outcome)
    /\ events' = events \o Thoughts_commit_push(state)

Emit_increment_iteration ==
    /\ Do_increment_iteration
    /\ events' = events \o Thoughts_increment_iteration(state)
                        \o <<StatusUpdate("running", "test_runner", state'["iteration"])>>

Emit_scorer(total_time_secs, pdf) ==
    /\ Do_scorer(total_time_secs)
    /\ events' = events \o Thoughts_scorer(state, pdf)
                        \o << RunComplete(FinalStatus(state), score(state, total_time_secs)),
                              Thought("scorer", Get(state, "iteration", 1) * 10 + 10) >>

InitEvents == \E n \in MinBudget..MaxIter : InitRun(BR_healing, n)

NextEvents ==
    \/ Emit_repo_scanner
    \/ \E exit_code \in ExitCodes, installs \in BOOLEAN : Emit_test_runner(exit_code, installs)
    \/ \E parsed \in FailureLists, fallback \in BOOLEAN : Emit_ast_analyzer(parsed, fallback)
    \/ \E outcomes \in UNION {OutcomeLists(n) : n \in 0..MaxFailures} : Emit_fix_generator(outcomes)
    \/ \E outcome \in GitOutcomes : Emit_commit_push(outcome)
    \/ \E ci_status \in CiOutcomes, regression \in BOOLEAN : Step_ci_monitor(ci_status, regression)
    \/ Step_ci_workflow_creator
    \/ Emit_increment_iteration
    \/ \E pdf \in BOOLEAN : Emit_scorer(SCORE_SPEED_THRESHOLD_SECS, pdf)
    \/ NodeRaises

SpecEvents == InitEvents /\ [][NextEvents]_vars

(***************************************************************************)
(* External cancellation.  run_agent_graph takes no cancellation token and *)
(* no node looks at one; the one way to stop a run from outside is to      *)
(* cancel the task that awaits graph.ainvoke.  asyncio.CancelledError is   *)
(* a BaseException, so "except Exception" does not catch it: it leaves     *)
(* run_agent_graph without a journal write and without an event.           *)
(***************************************************************************)
TaskCancelled ==
    /\ pc \in Nodes
    /\ pc' = "cancelled"
    /\ UNCHANGED <<state, steps, repo, journal, artifact, last_route, publisher_runs, events, run_state_store, requests, llm, db, tasks>>

InitCancel == \E n \in MinBudget..MaxIter : InitRun(BR_healing, n)

NextCancel ==
    \/ Next
    \/ TaskCancelled

SpecCancel == InitCancel /\ [][NextCancel]_vars

(***************************************************************************)
(* fix_generator on its own: a batch of failures of two kinds, some        *)
(* FixRecords already in the state, and for each failure what the loop     *)
(* finds in the working copy.                                              *)
(***************************************************************************)
MSG_import == <<"N","o"," ","m","o","d","u","l","e"," ","n","a","m","e","d"," ","x">>

FailureKinds ==
    { [bug_type |-> "LOGIC", error_message |-> MSG_assert],
      [bug_type |-> "IMPORT", error_message |-> MSG_import] }

Batches == UNION {[1..n -> FailureKinds] : n \in 1..MaxBatch}

ExistingFixes == {InputFix("applied", TRUE), InputFix("skipped", FALSE)}
ExistingLists == UNION {[1..n -> ExistingFixes] : n \in 0..MaxFixes}

\* what the loop finds for one failure: the failure names a file, a
\* dependency manifest can be guessed, the named file exists, and one of the
\* fixers (rule-based, completion service, manifest fallback) gives a patch;
\* without a path there is no file whose existence is looked up
FixEnvs ==
    {env \in [path_known : BOOLEAN, manifest : BOOLEAN, exists : BOOLEAN, patch : BOOLEAN] :
        ~env.path_known => ~env.exists}

\* fix_generator.py: the branches of the loop body
FixOutcome(failure, env) ==
    IF ~env.path_known /\ ~(failure.bug_type = "IMPORT" /\ env.manifest)
    THEN "skipped"
    ELSE IF env.path_known /\ ~env.exists
    THEN "skipped"
    ELSE IF ~env.patch
    THEN "failed"
    ELSE "applied"

FixOutcomesOf(failures, envs) ==
    [i \in 1..Len(failures) |-> FixOutcome(failures[i], envs[i])]

\* the working copy holds what the loop will find for each failure
InitFixGen ==
    /\ \E failures \in Batches, fixes \in ExistingLists :
          /\ state = Merge(initial_state(BR_healing, MaxIter),
                           [failures |-> failures, fixes |-> fixes,
                            test_exit_code |-> 1, current_node |-> "ast_analyzer"])
          /\ \E envs \in [1..Len(failures) -> FixEnvs] : repo = [envs |-> envs] @@ EmptyRepo
    /\ pc = "fix_generator"
    /\ steps = 0
    /\ journal = <<[status |-> "running"]>>
    /\ artifact = <<>>
    /\ last_route = "fix_generator"
    /\ publisher_runs = 0
    /\ events = <<>>
    /\ run_state_store = EmptyStore
    /\ requests = NoRequests
    /\ llm = NoLlm
    /\ db = NoDb
    /\ tasks = NoTasks

FixGen ==
    /\ Len(repo.envs) = Len(Get(state, "failures", <<>>))
    /\ Step_fix_generator(FixOutcomesOf(state["failures"], repo.envs))

NextFixGen == FixGen

SpecFixGen == InitFixGen /\ [][NextFixGen]_vars

(***************************************************************************)
(* The framework binary is absent: _run_cmd catches FileNotFoundError and  *)
(* returns ("ERROR: Test command not found - <cmd>", 127) in every         *)
(* iteration.  No rule-based parser matches that output (the patterns want *)
(* "FAILED ", "ERROR " or a case-sensitive "Error"), so the failures the   *)
(* analyzer returns are the completion service's answer: none without API  *)
(* keys or on invalid JSON, otherwise whatever list it answers.            *)
(***************************************************************************)
EXIT_NOT_FOUND == 127

InitAbsent == \E n \in MinBudget..MaxIter : InitRun(BR_healing, n)

NextAbsent ==
    \/ Step_repo_scanner
    \/ Step_test_runner(EXIT_NOT_FOUND)
    \/ \E answer \in FailureLists : Step_ast_analyzer(answer)
    \/ \E outcomes \in UNION {OutcomeLists(n) : n \in 0..MaxFailures} : Step_fix_generator(outcomes)
    \/ \E outcome \in GitOutcomes : Step_commit_push(outcome)
    \/ \E ci_status \in CiOutcomes, regression \in BOOLEAN : Step_ci_monitor(ci_status, regression)
    \/ Step_ci_workflow_creator
    \/ Step_increment_iteration
    \/ \E total_time_secs \in TimesSecs : Step_scorer(total_time_secs)

SpecAbsent == InitAbsent /\ [][NextAbsent]_vars

(***************************************************************************)
(* The analyzer's classification.  _BUG_PATTERNS is the list of (pattern,  *)
(* bug type) pairs in the order of the source; every pattern is compiled   *)
(* with re.I and searched anywhere in the message.  A pattern is modelled  *)
(* by its literal alternatives that Python test output can contain, in     *)
(* lower case; the alternatives with regular-expression operators match    *)
(* none of the messages drawn here.                                        *)
(***************************************************************************)

PAT_SYNTAX ==
    { <<"s","y","n","t","a","x","e","r","r","o","r">>,
      <<"i","n","d","e","n","t","a","t","i","o","n","e","r","r","o","r">>,
      <<"t","a","b","e","r","r","o","r">>,
      <<"u","n","e","x","p","e","c","t","e","d"," ","t","o","k","e","n">>,
      <<"s","y","n","t","a","x"," ","e","r","r","o","r">> }

PAT_INDENTATION ==
    { <<"i","n","d","e","n","t","a","t","i","o","n","e","r","r","o","r">>,
      <<"u","n","e","x","p","e","c","t","e","d"," ","i","n","d","e","n","t">>,
      <<"e","x","p","e","c","t","e","d"," ","a","n"," ","i","n","d","e","n","t","e","d"," ","b","l","o","c","k">>,
      <<"i","n","c","o","n","s","i","s","t","e","n","t"," ","u","s","e"," ","o","f"," ","t","a","b","s"," ","a","n","d"," ","s","p","a","c","e","s">> }

PAT_IMPORT ==
    { <<"i","m","p","o","r","t","e","r","r","o","r">>,
      <<"m","o","d","u","l","e","n","o","t","f","o","u","n","d","e","r","r","o","r">>,
      <<"n","o"," ","m","o","d","u","l","e"," ","n","a","m","e","d">>,
      <<"c","a","n","n","o","t"," ","f","i","n","d"," ","m","o","d","u","l","e">> }

PAT_TYPE_ERROR ==
    { <<"t","y","p","e","e","r","r","o","r">>,
      <<"i","n","c","o","m","p","a","t","i","b","l","e"," ","t","y","p","e">>,
      <<"t","y","p","e"," ","m","i","s","m","a","t","c","h">> }

PAT_LINTING ==
    { <<"f","l","a","k","e","8">>,
      <<"p","y","l","i","n","t">>,
      <<"e","s","l","i","n","t">>,
      <<"t","r","a","i","l","i","n","g"," ","w","h","i","t","e","s","p","a","c","e">>,
      <<"l","i","n","e"," ","t","o","o"," ","l","o","n","g">> }

PAT_LOGIC ==
    { <<"a","s","s","e","r","t","i","o","n","e","r","r","o","r">>,
      <<"a","s","s","e","r","t"," ">>,
      <<"a","s","s","e","r","t","e","q","u","a","l">>,
      <<"a","s","s","e","r","t","r","a","i","s","e","s">>,
      <<"a","s","s","e","r","t","i","o","n"," ","f","a","i","l","e","d">> }

_BUG_PATTERNS ==
    << [pattern |-> PAT_SYNTAX, bug_type |-> "SYNTAX"],
       [pattern |-> PAT_INDENTATION, bug_type |-> "INDENTATION"],
       [pattern |-> PAT_IMPORT, bug_type |-> "IMPORT"],
       [pattern |-> PAT_TYPE_ERROR, bug_type |-> "TYPE_ERROR"],
       [pattern |-> PAT_LINTING, bug_type |-> "LINTING"],
       [pattern |-> PAT_LOGIC, bug_type |-> "LOGIC"] >>

\* pattern.search(error_msg), pattern compiled with re.I
Search(pattern, error_msg) ==
    \E alt \in pattern : Contains(Lower(error_msg), alt)

\* ast_analyzer.py: _classify_bug_type, the loop from the k-th pair on
RECURSIVE ClassifyFrom(_, _)
ClassifyFrom(error_msg, k) ==
    IF k > Len(_BUG_PATTERNS) THEN "LOGIC"
    ELSE IF Search(_BUG_PATTERNS[k].pattern, error_msg) THEN _BUG_PATTERNS[k].bug_type
    ELSE ClassifyFrom(error_msg, k + 1)

_classify_bug_type(error_msg) == ClassifyFrom(error_msg, 1)

\* state.py: TestFailure
TestFailure(error_message, bug_type) ==
    [bug_type |-> bug_type, error_message |-> error_message]

TOK_IndentationError == <<"I","n","d","e","n","t","a","t","i","o","n","E","r","r","o","r">>
TOK_unexpected_indent == <<"u","n","e","x","p","e","c","t","e","d"," ","i","n","d","e","n","t">>
TOK_SyntaxError == <<"S","y","n","t","a","x","E","r","r","o","r">>
TOK_TypeError == <<"T","y","p","e","E","r","r","o","r">>
TOK_flake8 == <<"f","l","a","k","e","8">>
TOK_boom == <<"b","o","o","m">>

\* fragments of error messages: one per pattern, and one no pattern matches
Tokens ==
    { TOK_IndentationError, TOK_unexpected_indent, TOK_SyntaxError, MSG_import,
      TOK_TypeError, TOK_flake8, MSG_assert, TOK_boom }

\* ": ".join(tokens)
RECURSIVE JoinTokens(_)
JoinTokens(tokens) ==
    IF Len(tokens) = 1 THEN tokens[1]
    ELSE tokens[1] \o STR_colon \o JoinTokens(Tail(tokens))

ErrorMessagesParsed ==
    { JoinTokens(tokens) : tokens \in UNION {[1..n -> Tokens] : n \in 1..MaxTokens} }

\* the parsers: one TestFailure for the failure the output reports
ParsedFailures(error_msg) ==
    <<TestFailure(error_msg, _classify_bug_type(error_msg))>>

\* the "bug_type" of an item of the completion service's JSON answer: one of
\* the six names asked for, another string, or no such key
BugTypeAnswers == {"SYNTAX", "INDENTATION", "IMPORT", "TYPE_ERROR", "LINTING", "LOGIC",
                   "RUNTIME", "logic", None}
LlmItems == [bug_type : BugTypeAnswers, error_message : {MSG_assert}]

\* ast_analyzer.py: _llm_classify_failures, bug_type=item.get("bug_type") or "LOGIC"
_llm_classify_failures(items) ==
    [i \in 1..Len(items) |->
        TestFailure(items[i].error_message,
                    IF items[i].bug_type = None THEN "LOGIC" ELSE items[i].bug_type)]

InitAnalyzer ==
    /\ state = Merge(initial_state(BR_healing, MaxIter),
                     [test_exit_code |-> 1, current_node |-> "test_runner"])
    /\ pc = "ast_analyzer"
    /\ steps = 0
    /\ repo = EmptyRepo
    /\ journal = <<[status |-> "running"]>>
    /\ artifact = <<>>
    /\ last_route = "none"
    /\ publisher_runs = 0
    /\ events = <<>>
    /\ run_state_store = EmptyStore
    /\ requests = NoRequests
    /\ llm = NoLlm
    /\ db = NoDb
    /\ tasks = NoTasks

\* the rule-based parsers found a failure in the output
AnalyzeParsed(error_msg) ==
    /\ pc = "ast_analyzer"
    /\ Step_ast_analyzer(ParsedFailures(error_msg))

\* they found none and the completion service answered
AnalyzeFallback(items) ==
    /\ pc = "ast_analyzer"
    /\ Step_ast_analyzer(_llm_classify_failures(items))

NextAnalyzer ==
    \/ \E error_msg \in ErrorMessagesParsed : AnalyzeParsed(error_msg)
    \/ \E item \in LlmItems : AnalyzeFallback(<<item>>)
    \/ \E outcomes \in OutcomeLists(1) : Step_fix_generator(outcomes)

SpecAnalyzer == InitAnalyzer /\ [][NextAnalyzer]_vars

(***************************************************************************)
(* The IMPORT rule on a dependency manifest (fix_generator.py, _fix_import *)
(* and _extract_missing_module).  requirements.txt is a sequence of        *)
(* characters; package.json is the sequence of the JSON text's tokens.     *)
(***************************************************************************)
NL == "\n"
QUOTES == {"'", "\""}
STR_no_module_named == <<"n","o"," ","m","o","d","u","l","e"," ","n","a","m","e","d"," ">>
STR_cannot_find_module == <<"c","a","n","n","o","t"," ","f","i","n","d"," ","m","o","d","u","l","e"," ">>

\* the smallest member of a non-empty set of numbers
First(S) == CHOOSE i \in S : \A j \in S : i <= j

\* s.strip()
Strip(s) ==
    LET inked == {i \in 1..Len(s) : s[i] \notin {" ", NL}}
    IN  IF inked = {} THEN <<>>
        ELSE SubSeq(s, First(inked), CHOOSE i \in inked : \A j \in inked : j <= i)

\* s.split(sep)[0]
SplitBefore(s, sep) ==
    LET at == {i \in 1..(Len(s) - Len(sep) + 1) : SubSeq(s, i, i + Len(sep) - 1) = sep}
    IN  IF at = {} THEN s ELSE SubSeq(s, 1, First(at) - 1)

\* s.splitlines()
RECURSIVE SplitLines(_)
SplitLines(s) ==
    LET at == {i \in 1..Len(s) : s[i] = NL}
    IN  IF s = <<>> THEN <<>>
        ELSE IF at = {} THEN <<s>>
        ELSE <<SubSeq(s, 1, First(at) - 1)>> \o SplitLines(SubSeq(s, First(at) + 1, Len(s)))

\* where re.search(prefix ['"]([^'"]+)['"], error_message, re.I) can match
MatchStarts(error_message, prefix) ==
    { i \in 1..Len(error_message) :
        LET q == i + Len(prefix)
        IN  /\ q + 2 <= Len(error_message)
            /\ Lower(SubSeq(error_message, i, q - 1)) = prefix
            /\ error_message[q] \in QUOTES
            /\ error_message[q + 1] \notin QUOTES
            /\ \E j \in (q + 2)..Len(error_message) : error_message[j] \in QUOTES }

\* m.group(1) of the leftmost match
Group1(error_message, prefix) ==
    LET a == First(MatchStarts(error_message, prefix)) + Len(prefix) + 1
        j == First({k \in (a + 1)..Len(error_message) : error_message[k] \in QUOTES})
    IN  SubSeq(error_message, a, j - 1)

\* fix_generator.py: _extract_missing_module; None is the empty name, which
\* the caller's "if not missing_module" treats alike
_extract_missing_module(error_message) ==
    IF MatchStarts(error_message, STR_no_module_named) # {}
    THEN SplitBefore(Strip(Group1(error_message, STR_no_module_named)), <<".">>)
    ELSE IF MatchStarts(error_message, STR_cannot_find_module) # {}
    THEN SplitBefore(Strip(Group1(error_message, STR_cannot_find_module)), <<".">>)
    ELSE <<>>

\* file_path.name.lower()
NameLower(file_name) ==
    CASE file_name = "Requirements.txt" -> "requirements.txt"
      [] OTHER -> file_name

\* the result of a fixer: a patched content, or None
Patch(content) == [patched |-> TRUE, content |-> content]
NoPatch == [patched |-> FALSE, content |-> <<>>]

\* {ln.strip().split("==")[0].lower() for ln in req_lines if ln.strip()}
Normalized(file_content) ==
    LET req_lines == SplitLines(file_content)
    IN  { Lower(SplitBefore(Strip(req_lines[i]), <<"=", "=">>)) :
            i \in {k \in 1..Len(req_lines) : Strip(req_lines[k]) # <<>>} }

\* the requirements.txt branch comparing the name as it is spelled
FixRequirements_CaseSensitive(missing_module, file_content) ==
    IF missing_module \in Normalized(file_content)
    THEN NoPatch
    ELSE Patch((IF file_content # <<>> /\ file_content[Len(file_content)] # NL
                THEN file_content \o <<NL>> ELSE file_content)
               \o missing_module \o <<NL>>)

\* _fix_import, the requirements.txt branch
FixRequirements(missing_module, file_content) ==
    IF Lower(missing_module) \in Normalized(file_content)
    THEN NoPatch
    ELSE Patch((IF file_content # <<>> /\ file_content[Len(file_content)] # NL
                THEN file_content \o <<NL>> ELSE file_content)
               \o missing_module \o <<NL>>)

\* the text of a sequence of characters
RECURSIVE Concat(_)
Concat(s) == IF s = <<>> THEN "" ELSE s[1] \o Concat(Tail(s))

\* JSON: a string literal token, and the names the texts drawn here use
Quote(n) == "\"" \o n \o "\""
JsonNames == {"name", "demo", "devDependencies", "x", "Y", "z", "latest", "^1.6.0", "oops"}
IsStr(tok) == \E n \in JsonNames : Quote(n) = tok
Unquote(tok) == CHOOSE n \in JsonNames : Quote(n) = tok

\* JSON values: a string, a number, or an object of strings (a dict)
JStr(s) == [t |-> "str", s |-> s, o |-> <<>>]
JNum(s) == [t |-> "num", s |-> s, o |-> <<>>]
JObj(o) == [t |-> "obj", s |-> "", o |-> o]

\* d[key] = val on a dict kept as the sequence of its items, in insertion order
Put(d, key, val) ==
    IF \E i \in 1..Len(d) : d[i].key = key
    THEN [i \in 1..Len(d) |-> IF d[i].key = key THEN [key |-> key, val |-> val] ELSE d[i]]
    ELSE Append(d, [key |-> key, val |-> val])

Keys(d) == {d[i].key : i \in 1..Len(d)}
Lookup(d, key) == d[CHOOSE i \in 1..Len(d) : d[i].key = key].val

\* json.dumps: the tokens of the text (white space between tokens left out)
RECURSIVE DumpItems(_, _)
DumpItems(d, inner) ==
    IF d = <<>> THEN <<>>
    ELSE <<Quote(d[1].key), ":">>
         \o (IF inner THEN <<Quote(d[1].val)>>
             ELSE IF d[1].val.t = "str" THEN <<Quote(d[1].val.s)>>
             ELSE IF d[1].val.t = "num" THEN <<d[1].val.s>>
             ELSE <<"{">> \o DumpItems(d[1].val.o, TRUE) \o <<"}">>)
         \o (IF Len(d) > 1 THEN <<",">> ELSE <<>>)
         \o DumpItems(Tail(d), inner)

json_dumps(pkg) == <<"{">> \o DumpItems(pkg, FALSE) \o <<"}">>

\* json.loads: the dict of a text, or JSONDecodeError
JsonError == [ok |-> FALSE, d |-> <<>>, next |-> 0]

\* the items of an object of strings, from the key at toks[i] on
RECURSIVE ParseInner(_, _, _)
ParseInner(toks, i, acc) ==
    IF i + 3 > Len(toks) \/ ~IsStr(toks[i]) \/ toks[i + 1] # ":" \/ ~IsStr(toks[i + 2])
    THEN JsonError
    ELSE LET acc2 == Put(acc, Unquote(toks[i]), Unquote(toks[i + 2]))
         IN  IF toks[i + 3] = "," THEN ParseInner(toks, i + 4, acc2)
             ELSE IF toks[i + 3] = "}" THEN [ok |-> TRUE, d |-> acc2, next |-> i + 4]
             ELSE JsonError

\* the value at toks[i]
ParseValue(toks, i) ==
    IF i > Len(toks) THEN [ok |-> FALSE, v |-> JStr(""), next |-> 0]
    ELSE IF IsStr(toks[i]) THEN [ok |-> TRUE, v |-> JStr(Unquote(toks[i])), next |-> i + 1]
    ELSE IF toks[i] \in {"0", "1"} THEN [ok |-> TRUE, v |-> JNum(toks[i]), next |-> i + 1]
    ELSE IF toks[i] = "{" /\ i + 1 <= Len(toks) /\ toks[i + 1] = "}"
    THEN [ok |-> TRUE, v |-> JObj(<<>>), next |-> i + 2]
    ELSE IF toks[i] = "{"
    THEN LET r == ParseInner(toks, i + 1, <<>>)
         IN  [ok |-> r.ok, v |-> JObj(r.d), next |-> r.next]
    ELSE [ok |-> FALSE, v |-> JStr(""), next |-> 0]

\* the items of the top object, from the key at toks[i] on
RECURSIVE ParseItems(_, _, _)
ParseItems(toks, i, acc) ==
    IF i + 2 > Len(toks) \/ ~IsStr(toks[i]) \/ toks[i + 1] # ":"
    THEN JsonError
    ELSE LET r == ParseValue(toks, i + 2)
             acc2 == Put(acc, Unquote(toks[i]), r.v)
         IN  IF ~r.ok \/ r.next > Len(toks) THEN JsonError
             ELSE IF toks[r.next] = "," THEN ParseItems(toks, r.next + 1, acc2)
             ELSE IF toks[r.next] = "}" THEN [ok |-> TRUE, d |-> acc2, next |-> r.next + 1]
             ELSE JsonError

json_loads(toks) ==
    LET r == IF Len(toks) >= 2 /\ toks[1] = "{"
             THEN (IF toks[2] = "}" THEN [ok |-> TRUE, d |-> <<>>, next |-> 3]
                   ELSE ParseItems(toks, 2, <<>>))
             ELSE JsonError
    IN  IF r.ok /\ \A k \in r.next..Len(toks) : toks[k] = NL THEN r ELSE JsonError

\* _fix_import, the package.json branch
FixPackageJson(missing_module, file_content) ==
    LET parsed == json_loads(file_content)
        pkg == IF "devDependencies" \in Keys(parsed.d) THEN parsed.d
               ELSE Put(parsed.d, "devDependencies", JObj(<<>>))
        deps == Lookup(pkg, "devDependencies")
        name == Concat(missing_module)
    IN  IF ~parsed.ok THEN NoPatch
        ELSE IF deps.t # "obj" THEN NoPatch
        ELSE IF name \in Keys(deps.o) THEN NoPatch
        ELSE Patch(json_dumps(Put(pkg, "devDependencies", JObj(Put(deps.o, name, "latest"))))
                   \o <<NL>>)

\* fix_generator.py: _fix_import on a file that is not Python source
_fix_import(failure, file_content, file_name) ==
    LET missing_module == _extract_missing_module(failure.error_message)
    IN  IF missing_module = <<>> THEN NoPatch
        ELSE IF NameLower(file_name) = "requirements.txt"
        THEN FixRequirements(missing_module, file_content)
        ELSE IF NameLower(file_name) = "package.json"
        THEN FixPackageJson(missing_module, file_content)
        ELSE NoPatch

MSG_no_module_x == <<"N","o"," ","m","o","d","u","l","e"," ","n","a","m","e","d"," ","'","x","'">>
MSG_no_module_Y_sub == <<"M","o","d","u","l","e","N","o","t","F","o","u","n","d","E","r","r","o","r",":"," ","N","o"," ","m","o","d","u","l","e"," ","n","a","m","e","d"," ","'","Y",".","s","u","b","'">>
MSG_cannot_find_z == <<"C","a","n","n","o","t"," ","f","i","n","d"," ","m","o","d","u","l","e"," ","\"","z","\"">>
ImportMessages == {MSG_no_module_x, MSG_no_module_Y_sub, MSG_cannot_find_z, MSG_import}

\* lines of a requirements.txt
ReqLines == { <<"x">>, <<"X", "=", "=", "1">>, <<"y", ">", "=", "2">>, <<" ", "z", " ">>, <<>> }

RECURSIVE JoinLines(_)
JoinLines(lines) ==
    IF lines = <<>> THEN <<>>
    ELSE IF Len(lines) = 1 THEN lines[1]
    ELSE lines[1] \o <<NL>> \o JoinLines(Tail(lines))

ReqTexts ==
    { JoinLines(lines) \o tail :
        lines \in UNION {[1..n -> ReqLines] : n \in 0..MaxLines}, tail \in {<<>>, <<NL>>} }

\* package.json texts: with and without devDependencies, one where it is
\* not a dict, and two that are no JSON document
Pkgs ==
    { <<[key |-> "name", val |-> JStr("demo")]>>,
      <<[key |-> "name", val |-> JStr("demo")], [key |-> "devDependencies", val |-> JObj(<<>>)]>>,
      <<[key |-> "name", val |-> JStr("demo")],
        [key |-> "devDependencies", val |-> JObj(<<[key |-> "x", val |-> "^1.6.0"]>>)]>>,
      <<[key |-> "devDependencies",
         val |-> JObj(<<[key |-> "z", val |-> "latest"], [key |-> "Y", val |-> "^1.6.0"]>>)],
        [key |-> "name", val |-> JStr("demo")]>>,
      <<[key |-> "name", val |-> JStr("demo")], [key |-> "devDependencies", val |-> JStr("oops")]>>,
      <<[key |-> "name", val |-> JNum("1")]>>,
      <<>> }

PkgTexts == {json_dumps(pkg) : pkg \in Pkgs} \cup {<<"{">>, <<"{", Quote("name"), "}">>}

ManifestInputs ==
    [file_name : {"requirements.txt", "Requirements.txt", "setup.cfg"}, file_content : ReqTexts]
    \cup [file_name : {"package.json"}, file_content : PkgTexts]


InitImport ==
    /\ \E error_message \in ImportMessages :
          state = Merge(initial_state(BR_healing, MaxIter),
                        [failures |-> <<TestFailure(error_message, "IMPORT")>>,
                         test_exit_code |-> 1, current_node |-> "ast_analyzer"])
    /\ \E manifest \in ManifestInputs : repo = manifest @@ EmptyRepo
    /\ pc = "fix_import"
    /\ steps = 0
    /\ journal = <<[status |-> "running"]>>
    /\ artifact = <<>>
    /\ last_route = "fix_generator"
    /\ publisher_runs = 0
    /\ events = <<>>
    /\ run_state_store = EmptyStore
    /\ requests = NoRequests
    /\ llm = NoLlm
    /\ db = NoDb
    /\ tasks = NoTasks

\* fix_generator applies the rule to the manifest and writes the patch
ApplyFixImport ==
    /\ pc = "fix_import" /\ steps < MaxPatches
    /\ _fix_import(state["failures"][1], repo.file_content, repo.file_name).patched
    /\ repo' = [repo EXCEPT !.file_content =
                  _fix_import(state["failures"][1], repo.file_content, repo.file_name).content]
    /\ steps' = steps + 1
    /\ UNCHANGED <<state, pc, journal, artifact, last_route, publisher_runs, events, run_state_store, requests, llm, db, tasks>>

\* the rule returns None: there is nothing to add
NoImportPatch ==
    /\ pc = "fix_import"
    /\ ~_fix_import(state["failures"][1], repo.file_content, repo.file_name).patched
    /\ pc' = "no_patch"
    /\ UNCHANGED <<state, steps, repo, journal, artifact, last_route, publisher_runs, events, run_state_store, requests, llm, db, tasks>>

NextImport ==
    \/ ApplyFixImport
    \/ NoImportPatch

SpecImport == InitImport /\ [][NextImport]_vars

(***************************************************************************)
(* SpecApi: the agent service's HTTP routes (app/main.py).  A request is   *)
(* received and, in a later step, handled; requests are handled in any     *)
(* order, whatever the order they were received in.  The handlers are      *)
(* synchronous functions that FastAPI runs on worker threads: what they    *)
(* share is run_state_store, and every access to it is made under the      *)
(* store's lock, so handling one request is one step.  Each request keeps, *)
(* in "seen", which requests had been answered when it was handled.        *)
(***************************************************************************)
RUN_ID_MAX == 64
NAME_MAX == 120

Chars(s) == {s[i] : i \in 1..Len(s)}
BRANCH_CLASS == Chars(UPPER) \cup Chars(DIGITS) \cup {"_"}
URL_CLASS == Chars(UPPER) \cup Chars(LOWER) \cup Chars(DIGITS) \cup {"_", ".", "-"}
STR_AI_Fix_suffix == <<"_","A","I","_","F","i","x">>
STR_github == <<"h","t","t","p","s",":","/","/","g","i","t","h","u","b",".","c","o","m","/">>
STR_dot_git == <<".","g","i","t">>

\* the regular expression [class]+ matched against the whole of s
Plus(s, class) == Len(s) >= 1 /\ \A i \in 1..Len(s) : s[i] \in class

\* models.py: ^[A-Z0-9_]+_[A-Z0-9_]+_AI_Fix$
BranchPattern(s) ==
    LET n == Len(s) - Len(STR_AI_Fix_suffix)
    IN  /\ n >= 1
        /\ SubSeq(s, n + 1, Len(s)) = STR_AI_Fix_suffix
        /\ \E i \in 1..n :
              /\ s[i] = "_"
              /\ Plus(SubSeq(s, 1, i - 1), BRANCH_CLASS)
              /\ Plus(SubSeq(s, i + 1, n), BRANCH_CLASS)

\* models.py: ^https://github\.com/[A-Za-z0-9_.-]+/[A-Za-z0-9_.-]+(?:\.git)?/?$
RepoUrlPattern(s) ==
    LET rest == SubSeq(s, Len(STR_github) + 1, Len(s))
    IN  /\ StartsWith(s, STR_github)
        /\ \E i \in 1..Len(rest) : \E j \in i..Len(rest) :
              /\ rest[i] = "/"
              /\ Plus(SubSeq(rest, 1, i - 1), URL_CLASS)
              /\ Plus(SubSeq(rest, i + 1, j), URL_CLASS)
              /\ SubSeq(rest, j + 1, Len(rest))
                    \in {<<>>, STR_dot_git, <<"/">>, STR_dot_git \o <<"/">>}

\* models.py: the fields of AgentStartRequest; none has a default
StartFields ==
    {"run_id", "repo_url", "team_name", "leader_name", "branch_name",
     "max_iterations", "feature_flags"}

\* models.py: FeatureFlags; every flag has a default
FlagNames ==
    {"ENABLE_KB_LOOKUP", "ENABLE_SPECULATIVE_BRANCHES", "ENABLE_ADVERSARIAL_TESTS",
     "ENABLE_CAUSAL_GRAPH", "ENABLE_PROVENANCE_PASS"}

\* the constraint accepts everything but a budget above MaxBudget
FieldOk_NoUpperBudget(field, v) ==
    CASE field = "run_id" -> Len(v) >= 1 /\ Len(v) <= RUN_ID_MAX
      [] field = "repo_url" -> RepoUrlPattern(v)
      [] field \in {"team_name", "leader_name"} -> Len(v) >= 1 /\ Len(v) <= NAME_MAX
      [] field = "branch_name" -> BranchPattern(v)
      [] field = "max_iterations" -> v >= MinBudget
      [] field = "feature_flags" -> \A k \in DOMAIN v : k \in FlagNames => v[k] \in BOOLEAN

\* models.py: the Field(...) constraint of one field of AgentStartRequest
FieldOk(field, v) ==
    CASE field = "run_id" -> Len(v) >= 1 /\ Len(v) <= RUN_ID_MAX
      [] field = "repo_url" -> RepoUrlPattern(v)
      [] field \in {"team_name", "leader_name"} -> Len(v) >= 1 /\ Len(v) <= NAME_MAX
      [] field = "branch_name" -> BranchPattern(v)
      [] field = "max_iterations" -> v >= MinBudget /\ v <= MaxBudget
      [] field = "feature_flags" -> \A k \in DOMAIN v : k \in FlagNames => v[k] \in BOOLEAN

\* exc.errors(): the fields FastAPI could not validate, a missing field included
ValidationErrors(body) ==
    {field \in StartFields : field \notin DOMAIN body \/ ~FieldOk(field, body[field])}

\* errors.py: validation_error_handler
validation_error_handler(errors) ==
    [status_code |-> 400,
     content |-> [error |-> [code |-> "INVALID_INPUT",
                             message |-> "Request payload validation failed",
                             details |-> [errors |-> errors]]]]

\* app/state.py: RunState
RunState(run_id, status, current_node, iteration) ==
    [run_id |-> run_id, status |-> status, current_node |-> current_node,
     iteration |-> iteration]

\* the store keeps the latest run only
upsert_ClearsOthers(runs, st) == [r \in {st.run_id} |-> st]

\* app/state.py: InMemoryRunStateStore.upsert, self._runs[state.run_id] = state
upsert(runs, st) ==
    [r \in DOMAIN runs \cup {st.run_id} |-> IF r = st.run_id THEN st ELSE runs[r]]

\* app/state.py: InMemoryRunStateStore.get; None is <<>>, a RunState st is <<st>>
get(runs, run_id) == IF run_id \in DOMAIN runs THEN <<runs[run_id]>> ELSE <<>>

\* models.py: AgentStatusResponse, sent with status 200
AgentStatusResponse(run_id, status, current_node, iteration) ==
    [status_code |-> 200,
     content |-> [run_id |-> run_id, status |-> status, current_node |-> current_node,
                  iteration |-> iteration]]

\* main.py: agent_start; the store it leaves and the response it returns
agent_start(runs, payload) ==
    [runs |-> upsert(runs, RunState(payload["run_id"], "running", "repo_scanner", 0)),
     response |-> [status_code |-> 200,
                   content |-> [accepted |-> TRUE, run_id |-> payload["run_id"]]]]

\* main.py: agent_status
agent_status(runs, run_id) ==
    LET found == get(runs, run_id)
    IN  IF found = <<>>
        THEN AgentStatusResponse(run_id, "queued", "queued", 0)
        ELSE AgentStatusResponse(found[1].run_id, found[1].status,
                                 found[1].current_node, found[1].iteration)

\* Inputs: two run ids, the payloads of tests/test_validation.py and payloads
\* on both sides of each constraint's limit.
RUN_1 == <<"r","u","n","_","1">>
RUN_2 == <<"r","u","n","_","2">>
URL_org_repo == STR_github \o <<"o","r","g","/","r","e","p","o">>
URL_http == <<"h","t","t","p",":","/","/","g","i","t","h","u","b",".","c","o","m","/","o","/","r">>
AllFlags == [k \in FlagNames |-> k # "ENABLE_SPECULATIVE_BRANCHES"]

ValidPayload(run_id, max_iterations) ==
    [run_id |-> run_id, repo_url |-> URL_org_repo,
     team_name |-> [i \in 1..NAME_MAX |-> "T"], leader_name |-> <<"L">>,
     branch_name |-> BR_healing, max_iterations |-> max_iterations,
     feature_flags |-> AllFlags]

StartBodies ==
    { ValidPayload(RUN_1, MaxBudget),
      ValidPayload(RUN_2, MinBudget),
      [run_id |-> RUN_1],
      [ValidPayload(RUN_1, MinBudget) EXCEPT !.branch_name = BR_main],
      [ValidPayload(RUN_1, MaxBudget + 1) EXCEPT !.repo_url = URL_org_repo \o STR_dot_git],
      ValidPayload(RUN_2, MinBudget - 1),
      [ValidPayload(RUN_2, MaxBudget) EXCEPT !.team_name = [i \in 1..(NAME_MAX + 1) |-> "T"]],
      [ValidPayload(RUN_2, MaxBudget) EXCEPT !.repo_url = URL_http] }

Requests ==
    [kind : {"start"}, body : StartBodies]
    \cup [kind : {"status"}, body : {[run_id |-> RUN_1], [run_id |-> RUN_2]}]

run_vars == <<state, pc, steps, repo, journal, artifact, last_route, publisher_runs, events>>

InitApi ==
    /\ state = EmptyDict
    /\ pc = "serving"
    /\ steps = 0
    /\ repo = EmptyRepo
    /\ journal = <<>>
    /\ artifact = <<>>
    /\ last_route = "none"
    /\ publisher_runs = 0
    /\ events = <<>>
    /\ run_state_store = EmptyStore
    /\ requests = NoRequests
    /\ llm = NoLlm
    /\ db = NoDb
    /\ tasks = NoTasks

Answered == {j \in 1..MaxRequests : requests[j].phase = "responded"}

\* a client sends a request
Receive(k, req) ==
    /\ requests[k].phase = "none"
    /\ \A j \in 1..(k - 1) : requests[j].phase # "none"
    /\ requests' = [requests EXCEPT ![k] =
                      [phase |-> "received", kind |-> req.kind, body |-> req.body,
                       seen |-> {}, response |-> NoResponse]]
    /\ UNCHANGED <<run_vars, run_state_store, llm, db, tasks>>

\* POST /agent/start: FastAPI validates the body against AgentStartRequest
\* and calls agent_start, or raises RequestValidationError to the handler
post_agent_start(k) ==
    /\ requests[k].phase = "received" /\ requests[k].kind = "start"
    /\ LET errors == ValidationErrors(requests[k].body)
           done == agent_start(run_state_store, requests[k].body)
       IN  IF errors # {}
           THEN /\ requests' = [requests EXCEPT ![k].phase = "responded",
                                                ![k].seen = Answered,
                                                ![k].response = validation_error_handler(errors)]
                /\ UNCHANGED run_state_store
           ELSE /\ run_state_store' = done.runs
                /\ requests' = [requests EXCEPT ![k].phase = "responded",
                                                ![k].seen = Answered,
                                                ![k].response = done.response]
    /\ UNCHANGED <<run_vars, llm, db, tasks>>

\* GET /agent/status?run_id=...
get_agent_status(k) ==
    /\ requests[k].phase = "received" /\ requests[k].kind = "status"
    /\ requests' = [requests EXCEPT ![k].phase = "responded",
                                    ![k].seen = Answered,
                                    ![k].response =
                                        agent_status(run_state_store, requests[k].body.run_id)]
    /\ UNCHANGED <<run_vars, run_state_store, llm, db, tasks>>

NextApi ==
    \/ \E k \in 1..MaxRequests : \E req \in Requests : Receive(k, req)
    \/ \E k \in 1..MaxRequests : post_agent_start(k)
    \/ \E k \in 1..MaxRequests : get_agent_status(k)

SpecApi == InitApi /\ [][NextApi]_vars

(***************************************************************************)
(* SpecLlm: the completion service's client factory (app/llm.py).  Tasks   *)
(* are threads of one process calling get_llm; a thread can be preempted   *)
(* between any two statements.  llm.lock is the thread holding _lock (0:   *)
(* free), llm.cycle is _cycle (None is <<>>, an iterator c is <<c>>),      *)
(* llm.inits counts the assignments to _cycle and llm.handed lists the     *)
(* keys returned by next(_cycle), in the order of the calls.               *)
(***************************************************************************)
\* itertools.cycle(items): an iterator over items, repeated for ever
itertools_cycle(items) == [items |-> items, pos |-> 0]

\* next(c) on an itertools.cycle: the value and the iterator after the call
next(c) ==
    [value |-> c.items[c.pos + 1],
     cycle |-> [c EXCEPT !.pos = (c.pos + 1) % Len(c.items)]]

\* a lock that any thread may take while another holds it
acquire_Unguarded(lock, t) == TRUE

\* threading.Lock: thread t can enter "with _lock" when no thread holds it
acquire(lock, t) == lock = 0

\* get_llm choosing the secondary provider whenever it is configured
Provider_SecondaryFirst(groq_api_keys, openai_api_key) ==
    IF openai_api_key # "" THEN "openai"
    ELSE IF groq_api_keys # <<>> THEN "groq"
    ELSE "RuntimeError"

\* llm.py: get_llm, the branch taken
Provider(groq_api_keys, openai_api_key) ==
    IF groq_api_keys # <<>> THEN "groq"
    ELSE IF openai_api_key # "" THEN "openai"
    ELSE "RuntimeError"

\* the client get_llm returns, or the error it raises
Client(provider, api_key) == [provider |-> provider, api_key |-> api_key]

ApiKeys == <<"gsk_1", "gsk_2", "gsk_3", "gsk_4">>
KeyLists == {SubSeq(ApiKeys, 1, n) : n \in 0..MaxKeys}
OpenAiKeys == {"", "sk_1"}
Tasks == 1..MaxTasks

InitLlm ==
    /\ state = EmptyDict
    /\ pc = "serving"
    /\ steps = 0
    /\ repo = EmptyRepo
    /\ journal = <<>>
    /\ artifact = <<>>
    /\ last_route = "none"
    /\ publisher_runs = 0
    /\ events = <<>>
    /\ run_state_store = EmptyStore
    /\ requests = NoRequests
    /\ \E groq_api_keys \in KeyLists, openai_api_key \in OpenAiKeys :
          llm = [NoLlm EXCEPT !.GROQ_API_KEYS = groq_api_keys,
                              !.OPENAI_API_KEY = openai_api_key]
    /\ db = NoDb
    /\ tasks = NoTasks

llm_frame == <<run_vars, run_state_store, requests, db>>

\* a node of some run calls get_llm()
CallGetLlm(t) ==
    /\ tasks[t].at = "idle" /\ tasks[t].calls < MaxCalls
    /\ tasks' = [tasks EXCEPT ![t].at = "get_llm", ![t].calls = @ + 1]
    /\ UNCHANGED <<llm_frame, llm>>

\* get_llm: "if GROQ_API_KEYS:" calls _next_key; "if OPENAI_API_KEY:" returns
\* the secondary client; otherwise RuntimeError is raised
SelectProvider(t) ==
    /\ tasks[t].at = "get_llm"
    /\ LET provider == Provider(llm.GROQ_API_KEYS, llm.OPENAI_API_KEY)
       IN  IF provider = "groq"
           THEN tasks' = [tasks EXCEPT ![t].at = "_next_key"]
           ELSE tasks' = [tasks EXCEPT ![t].at = "idle",
                             ![t].got = Append(@, Client(provider,
                                 IF provider = "openai" THEN llm.OPENAI_API_KEY ELSE ""))]
    /\ UNCHANGED <<llm_frame, llm>>

\* _next_key: with _lock
AcquireLock(t) ==
    /\ tasks[t].at = "_next_key"
    /\ acquire(llm.lock, t)
    /\ llm' = [llm EXCEPT !.lock = t]
    /\ tasks' = [tasks EXCEPT ![t].at = "test_cycle"]
    /\ UNCHANGED llm_frame

\* _next_key: if _cycle is None
TestCycle(t) ==
    /\ tasks[t].at = "test_cycle"
    /\ tasks' = [tasks EXCEPT ![t].at = IF llm.cycle = <<>> THEN "init_cycle" ELSE "next"]
    /\ UNCHANGED <<llm_frame, llm>>

\* _next_key: raise without keys (the lock is released), else
\* _cycle = itertools.cycle(GROQ_API_KEYS)
InitCycle(t) ==
    /\ tasks[t].at = "init_cycle"
    /\ IF llm.GROQ_API_KEYS = <<>>
       THEN /\ llm' = [llm EXCEPT !.lock = IF @ = t THEN 0 ELSE @]
            /\ tasks' = [tasks EXCEPT ![t].at = "idle",
                                      ![t].got = Append(@, Client("RuntimeError", ""))]
       ELSE /\ llm' = [llm EXCEPT !.cycle = <<itertools_cycle(llm.GROQ_API_KEYS)>>,
                                  !.inits = @ + 1]
            /\ tasks' = [tasks EXCEPT ![t].at = "next"]
    /\ UNCHANGED llm_frame

\* _next_key: return next(_cycle), leaving "with _lock"; get_llm returns the
\* primary client with that key
NextKey(t) ==
    /\ tasks[t].at = "next"
    /\ LET step == next(llm.cycle[1])
       IN  /\ llm' = [llm EXCEPT !.cycle = <<step.cycle>>,
                                 !.handed = Append(@, step.value),
                                 !.lock = IF @ = t THEN 0 ELSE @]
           /\ tasks' = [tasks EXCEPT ![t].at = "idle",
                                     ![t].got = Append(@, Client("groq", step.value))]
    /\ UNCHANGED llm_frame

NextLlm ==
    \E t \in Tasks :
        \/ CallGetLlm(t)
        \/ SelectProvider(t)
        \/ AcquireLock(t)
        \/ TestCycle(t)
        \/ InitCycle(t)
        \/ NextKey(t)

SpecLlm == InitLlm /\ [][NextLlm]_vars

(***************************************************************************)
(* SpecPush: _do_commit of the Publisher, statement by statement, on a     *)
(* working copy whose origin remote has a URL.  repo.origin_url is the URL *)
(* in the repository's configuration, repo.url_before the URL it had when  *)
(* the step began, repo.GITHUB_TOKEN the environment variable, and         *)
(* repo.original_url and repo.auth_url are _do_commit's local variables.   *)
(***************************************************************************)
STR_https == <<"h","t","t","p","s",":","/","/">>
STR_x_access_token == <<"x","-","a","c","c","e","s","s","-","t","o","k","e","n",":">>
STR_slashes == <<"/","/">>

\* url.split("//", 1)[-1]
AfterSlashes(url) ==
    LET at == {i \in 1..(Len(url) - 1) : SubSeq(url, i, i + 1) = STR_slashes}
    IN  IF at = {} THEN url ELSE SubSeq(url, First(at) + 2, Len(url))

\* commit_push.py: _auth_remote_url, with token = os.getenv("GITHUB_TOKEN", "")
_auth_remote_url(url, token) ==
    IF token = <<>> THEN url
    ELSE IF Contains(AfterSlashes(url), <<"@">>) THEN url
    ELSE IF StartsWith(url, STR_https) /\ Len(url) > Len(STR_https)
    THEN STR_https \o STR_x_access_token \o token \o <<"@">>
            \o SubSeq(url, Len(STR_https) + 1, Len(url))
    ELSE url

\* a finally clause that leaves the remote as the push left it
finally_set_url_Skipped(origin_url, auth_url, original_url) == origin_url

\* commit_push.py: _do_commit, the finally clause around origin.push
finally_set_url(origin_url, auth_url, original_url) ==
    IF auth_url # original_url THEN original_url ELSE origin_url

URL_org_repo_git == URL_org_repo \o STR_dot_git
URL_credentials == STR_https \o <<"u",":","p","@","g","i","t","h","u","b",".","c","o","m","/","o","/","r">>
URL_ssh == <<"g","i","t","@","g","i","t","h","u","b",".","c","o","m",":","o","/","r">>
RemoteUrls == {URL_org_repo, URL_org_repo_git, URL_http, URL_credentials, URL_ssh}
GithubTokens == {<<>>, <<"g","h","p","_","1">>, <<"g","h","s","_","2">>}

InitPush ==
    /\ state = Merge(initial_state(BR_healing, MaxIter),
                     [fixes |-> <<FixRecord(TestFailure(MSG_assert, "LOGIC"), "applied")>>,
                      test_exit_code |-> 1, current_node |-> "fix_generator"])
    /\ pc = "index.commit"
    /\ steps = 0
    /\ \E url \in RemoteUrls, token \in GithubTokens :
          repo = [origin_url |-> url, url_before |-> url, GITHUB_TOKEN |-> token,
                  original_url |-> <<>>, auth_url |-> <<>>, outcome |-> "none"] @@ EmptyRepo
    /\ journal = <<[status |-> "running"]>>
    /\ artifact = <<>>
    /\ last_route = "fix_generator"
    /\ publisher_runs = 0
    /\ events = <<>>
    /\ run_state_store = EmptyStore
    /\ requests = NoRequests
    /\ llm = NoLlm
    /\ db = NoDb
    /\ tasks = NoTasks

push_frame ==
    <<state, steps, journal, artifact, last_route, publisher_runs, events,
      run_state_store, requests, llm, db, tasks>>

\* repo.index.commit(msg): the commit is created, or the call raises
IndexCommit(raises) ==
    /\ pc = "index.commit"
    /\ IF raises
       THEN /\ pc' = "raised"
            /\ repo' = [repo EXCEPT !.outcome = "commit_raises"]
       ELSE /\ pc' = "set_url"
            /\ repo' = [repo EXCEPT !.commits = @ + 1]
    /\ UNCHANGED push_frame

\* original_url = origin.url; auth_url = _auth_remote_url(original_url);
\* if auth_url != original_url: origin.set_url(auth_url)
InjectToken ==
    /\ pc = "set_url"
    /\ LET auth_url == _auth_remote_url(repo.origin_url, repo.GITHUB_TOKEN)
       IN  repo' = [repo EXCEPT !.original_url = repo.origin_url,
                                !.auth_url = auth_url,
                                !.origin_url = IF auth_url # repo.origin_url
                                               THEN auth_url ELSE @]
    /\ pc' = "origin.push"
    /\ UNCHANGED push_frame

\* origin.push(branch_name, force=True) and the test of its flags: the try
\* block ends normally, with "Push rejected", or with what push raised
OriginPush(outcome) ==
    /\ pc = "origin.push"
    /\ repo' = [repo EXCEPT !.outcome = outcome,
                            !.pushes = @ + (IF outcome = "ok" THEN 1 ELSE 0)]
    /\ pc' = "finally"
    /\ UNCHANGED push_frame

\* the finally clause, then the return or the exception goes on
Finally ==
    /\ pc = "finally"
    /\ repo' = [repo EXCEPT !.origin_url =
                   finally_set_url(repo.origin_url, repo.auth_url, repo.original_url)]
    /\ pc' = IF repo.outcome = "ok" THEN "returned" ELSE "raised"
    /\ UNCHANGED push_frame

NextPush ==
    \/ \E raises \in BOOLEAN : IndexCommit(raises)
    \/ InjectToken
    \/ \E outcome \in GitOutcomes \ {"commit_raises"} : OriginPush(outcome)
    \/ Finally

SpecPush == InitPush /\ [][NextPush]_vars

(***************************************************************************)
(* SpecPool: get_pool of the journal (app/db.py).  Tasks are coroutines of *)
(* one event loop: a coroutine runs without interruption from one await   *)
(* to the next, and the only await of get_pool is the one on               *)
(* asyncpg.create_pool.  db.pool is _pool (0 is None, else the number of   *)
(* the pool object) and db.created counts the pools created.  The callers  *)
(* are update_run_status calls of concurrent runs; the journal lists the   *)
(* statements executed, each with the pool it went through.                *)
(***************************************************************************)
InitPool ==
    /\ state = EmptyDict
    /\ pc = "serving"
    /\ steps = 0
    /\ repo = EmptyRepo
    /\ journal = <<>>
    /\ artifact = <<>>
    /\ last_route = "none"
    /\ publisher_runs = 0
    /\ events = <<>>
    /\ run_state_store = EmptyStore
    /\ requests = NoRequests
    /\ llm = NoLlm
    /\ db = NoDb
    /\ tasks = NoTasks

pool_frame ==
    <<state, pc, steps, repo, artifact, last_route, publisher_runs, events,
      run_state_store, requests, llm>>

\* get_pool up to its await: "if _pool is None" starts asyncpg.create_pool
\* and suspends; otherwise the pool is returned at once
GetPool(t) ==
    /\ tasks[t].at = "idle" /\ tasks[t].calls < MaxCalls
    /\ IF db.pool = 0
       THEN tasks' = [tasks EXCEPT ![t].at = "create_pool", ![t].calls = @ + 1]
       ELSE tasks' = [tasks EXCEPT ![t].at = "execute", ![t].calls = @ + 1,
                                   ![t].got = Append(@, db.pool)]
    /\ UNCHANGED <<pool_frame, db, journal>>

\* asyncpg.create_pool completes: _pool = <the new pool>; return _pool
PoolCreated(t) ==
    /\ tasks[t].at = "create_pool"
    /\ db' = [pool |-> db.created + 1, created |-> db.created + 1]
    /\ tasks' = [tasks EXCEPT ![t].at = "execute", ![t].got = Append(@, db.created + 1)]
    /\ UNCHANGED <<pool_frame, journal>>

\* asyncpg.create_pool raises (the database cannot be reached): _pool stays None
PoolRefused(t) ==
    /\ tasks[t].at = "create_pool"
    /\ tasks' = [tasks EXCEPT ![t].at = "idle"]
    /\ UNCHANGED <<pool_frame, db, journal>>

\* update_run_status: await pool.execute(...) on the pool get_pool returned
PoolExecute(t) ==
    /\ tasks[t].at = "execute"
    /\ journal' = Append(journal, [run |-> t, pool |-> tasks[t].got[Len(tasks[t].got)]])
    /\ tasks' = [tasks EXCEPT ![t].at = "idle"]
    /\ UNCHANGED <<pool_frame, db>>

NextPool ==
    \E t \in Tasks :
        \/ GetPool(t)
        \/ PoolCreated(t)
        \/ PoolRefused(t)
        \/ PoolExecute(t)

SpecPool == InitPool /\ [][NextPool]_vars

(***************************************************************************)
(* Properties.                                                             *)
(***************************************************************************)
Finished == pc = "END"
Quarantined == Truthy(state, "quarantine_reason")
ProtectedRun == Lower(state["branch_name"]) \in _PROTECTED_BRANCHES
\* an error_message that indicates a commit/push failure
IndicatesPushFailure(s) ==
    /\ "error_message" \in DOMAIN s
    /\ Contains(Lower(s["error_message"]), STR_commit_push_failed)
\* the step just taken is an execution of commit_push that returned
PublisherReturned == pc = "commit_push" /\ pc' # "crashed"

\* C1: for every budget N in 1..20 the run that never converges is never cut
\* short by the recursion limit, and once it is over the Scorer has ended it
\* FAILED with total_iterations = N and total_commits >= N.
C1_NonConvergingRunIsScored ==
    /\ pc # "crashed"
    /\ Finished =>
        /\ Len(artifact) = 1
        /\ artifact[1].final_status = "FAILED"
        /\ journal[Len(journal)].total_iterations = state["max_iterations"]
        /\ journal[Len(journal)].total_commits >= state["max_iterations"]

\* what the code does guarantee: the same for the budgets whose
\* 6 * N + 1 node executions fit the recursion limit
C1_HoldsWithinLimit ==
    6 * state["max_iterations"] + 1 <= _RECURSION_LIMIT => C1_NonConvergingRunIsScored

STR_BLOCKED_prefix == SubSeq(STR_BLOCKED, 1, Len(STR_BLOCKED) - 2)

C2_NothingPushed == ProtectedRun => repo = EmptyRepo /\ state["total_commits"] = 0

C2_PublisherRefuses ==
    (PublisherReturned /\ ProtectedRun) =>
        /\ state'["status"] = "quarantined"
        /\ StartsWith(state'["quarantine_reason"], STR_BLOCKED_prefix)
        /\ state'["pushed_this_iteration"] = FALSE
        /\ state'["total_commits"] = state["total_commits"]
        /\ state'["fixes"] = state["fixes"]
        /\ repo' = repo

\* C2: when branch_name is, case-insensitively, main, master, develop or
\* release, nothing is ever committed or pushed, and commit_push returns
\* status quarantined, a quarantine_reason starting with the BLOCKED text,
\* pushed_this_iteration false, and total_commits and fixes as they were.
C2_ProtectedBranchNeverPushed == []C2_NothingPushed /\ [][C2_PublisherRefuses]_vars

C2_Witness ==
    /\ state["branch_name"] = BR_Master
    /\ state["current_node"] = "commit_push"
    /\ state["status"] = "quarantined"
    /\ PendingApplied(state["fixes"]) # {}

\* C3: once the Publisher has quarantined the run, the only node executed
\* afterwards is the Scorer (never CIWatcher), and the run ends QUARANTINED.
C3_QuarantineGoesToScorer ==
    Quarantined =>
        /\ state["current_node"] \in {"commit_push", "scorer"}
        /\ state["current_node"] = "commit_push" => pc \in {"scorer", "crashed"}
        /\ state["ci_runs"] = <<>>
        /\ Finished =>
            /\ artifact[1].final_status = "QUARANTINED"
            /\ state["status"] = "quarantined"
            /\ journal[Len(journal)].status = "quarantined"

C3_Witness ==
    /\ Finished
    /\ Quarantined
    /\ artifact[1].final_status = "QUARANTINED"

\* C4: when the Scorer builds the artifact, every FixRecord with status
\* applied has a commit SHA, unless error_message indicates a commit/push
\* failure.
C4_AppliedFixesAreCommitted ==
    (pc = "scorer" \/ Finished) =>
        \/ IndicatesPushFailure(state)
        \/ \A i \in 1..Len(state["fixes"]) :
              state["fixes"][i].status = "applied" => state["fixes"][i].commit_sha # None

C5_PushFailed ==
    /\ PublisherReturned
    /\ ~ProtectedRun
    /\ PendingApplied(state["fixes"]) # {}
    /\ repo'.pushes = repo.pushes

\* C5: when the commit or the push fails, every fix of the batch becomes
\* failed (the other records are untouched), error_message contains
\* 'commit/push failed', pushed_this_iteration is false, total_commits is
\* unchanged and the next node is the Scorer.
C5_PushFailureFailsBatch ==
    [][ C5_PushFailed =>
          /\ \A i \in 1..Len(state["fixes"]) :
                state'["fixes"][i] =
                    IF i \in PendingApplied(state["fixes"])
                    THEN [state["fixes"][i] EXCEPT !.status = "failed"]
                    ELSE state["fixes"][i]
          /\ Len(state'["fixes"]) = Len(state["fixes"])
          /\ Contains(state'["error_message"], STR_commit_push_failed)
          /\ state'["pushed_this_iteration"] = FALSE
          /\ state'["total_commits"] = state["total_commits"]
          /\ pc' = "scorer" ]_vars

C5_Witness ==
    /\ state["current_node"] = "commit_push"
    /\ IndicatesPushFailure(state)
    /\ pc = "scorer"
    /\ repo.commits > repo.pushes
    /\ \E i \in 1..Len(state["fixes"]) : state["fixes"][i].status = "failed"

\* C6: commit_push returns pushed_this_iteration = true exactly when its
\* push to the healing branch landed, and it adds exactly 1 to total_commits
\* in exactly those executions.
C6_PushedOnlyOnSuccess ==
    [][ PublisherReturned =>
          /\ state'["pushed_this_iteration"] = (repo'.pushes = repo.pushes + 1)
          /\ repo'.pushes \in {repo.pushes, repo.pushes + 1}
          /\ state'["pushed_this_iteration"] =>
                /\ state'["total_commits"] = state["total_commits"] + 1
                /\ ~ProtectedRun
                /\ state["branch_name"] \in repo'.pushed_branches
          /\ ~state'["pushed_this_iteration"] =>
                state'["total_commits"] = state["total_commits"] ]_vars

C6_Witness ==
    /\ state["current_node"] = "commit_push"
    /\ state["pushed_this_iteration"]
    /\ state["total_commits"] = 2
    /\ repo.pushes >= 2

RetryClause(s) ==
    /\ s["iteration"] < s["max_iterations"]
    /\ ~Truthy(s, "quarantine_reason")
    /\ ~(s["current_ci_status"] = "passed" /\ s["test_exit_code"] = 0)
    /\ ~(s["current_ci_status"] = "no_ci" /\ ~Get(s, "ci_workflow_created", FALSE))

C8_Range ==
    /\ 1 <= state["iteration"] /\ state["iteration"] <= state["max_iterations"]
    /\ pc = "increment_iteration" => RetryClause(state)

C8_OnlyRetryBumps ==
    state'["iteration"] # state["iteration"] =>
        /\ pc = "increment_iteration"
        /\ RetryClause(state)
        /\ state'["iteration"] = state["iteration"] + 1

\* C8: 1 <= iteration <= max_iterations; iteration changes only in the retry
\* transition, by exactly 1, and that transition is taken only when the
\* retry clause holds.
C8_IterationMonotone == []C8_Range /\ [][C8_OnlyRetryBumps]_vars

C8_Witness ==
    /\ state["current_node"] = "retry"
    /\ state["iteration"] = 2
    /\ pc = "test_runner"

\* C9: should_retry returns the first matching clause in the order bootstrap,
\* passed, quarantined, budget exhausted, retry.
C9_RetryCascade ==
    LET ci_status == Get(state, "current_ci_status", "failed")
        bootstrap == ci_status = "no_ci" /\ ~Get(state, "ci_workflow_created", FALSE)
        passed == ci_status = "passed" /\ Get(state, "test_exit_code", 1) = 0
        exhausted == Get(state, "iteration", 1) >= Get(state, "max_iterations", MAX_ITERATIONS)
        quarantined == Truthy(state, "quarantine_reason")
    IN  pc = "should_retry" =>
          /\ bootstrap => last_route = "create_workflow"
          /\ (~bootstrap /\ passed) => last_route = "scorer"
          /\ (~bootstrap /\ ~passed /\ quarantined) => last_route = "scorer"
          /\ (~bootstrap /\ ~passed /\ ~quarantined /\ exhausted) => last_route = "scorer"
          /\ (~bootstrap /\ ~passed /\ ~quarantined /\ ~exhausted) => last_route = "retry"

\* the bootstrap clause wins over an exhausted budget
C9_Witness ==
    /\ pc = "should_retry"
    /\ last_route = "create_workflow"
    /\ "iteration" \in DOMAIN state /\ "max_iterations" \in DOMAIN state
    /\ state["iteration"] > state["max_iterations"]

\* C10: should_monitor_ci returns scorer when error_message contains
\* 'commit/push failed' in any letter case or pushed_this_iteration is false
\* or absent, and ci_monitor in every other state.
C10_MonitorOnlyAfterPush ==
    pc = "should_monitor_ci" =>
        IF \/ IndicatesPushFailure(state)
           \/ "pushed_this_iteration" \notin DOMAIN state
           \/ ~state["pushed_this_iteration"]
        THEN last_route = "scorer"
        ELSE last_route = "ci_monitor"

C10_Witness ==
    /\ pc = "should_monitor_ci"
    /\ last_route = "scorer"
    /\ "pushed_this_iteration" \in DOMAIN state /\ state["pushed_this_iteration"]
    /\ "error_message" \in DOMAIN state /\ state["error_message"] = MSG_upper

\* the step just taken is an execution of ast_analyzer that returned
AnalyzerReturned == pc = "ast_analyzer" /\ pc' # "crashed"

C11_Routing ==
    AnalyzerReturned =>
        IF state'["test_exit_code"] = 0 \/ state'["failures"] = <<>>
        THEN pc' = "scorer"
        ELSE pc' = "fix_generator"

\* the suite failed and the Analyzer found nothing in its output
C11_UnparsedFailure ==
    /\ Finished
    /\ state["test_exit_code"] # 0
    /\ state["failures"] = <<>>

\* C11: after the Analyzer the run goes to the Scorer when the test exit code
\* is 0 or the failure list is empty and to the Synthesizer otherwise; a run
\* whose failing suite yielded no parsed failures is finalized FAILED.
C11_UnparsedFailureIsFailed ==
    /\ [][C11_Routing]_vars
    /\ [](C11_UnparsedFailure => artifact[1].final_status = "FAILED")

\* what the code does guarantee: the routing, and FAILED unless an earlier
\* iteration's CI run has passed
C11_HoldsWithoutPassedCi ==
    /\ [][C11_Routing]_vars
    /\ [](C11_UnparsedFailure =>
            \/ artifact[1].final_status = "FAILED"
            \/ Get(state, "current_ci_status", "failed") = "passed")

\* the text of a run status or of a final status
StatusText(st) ==
    CASE st = "PASSED" -> <<"P","A","S","S","E","D">>
      [] st = "QUARANTINED" -> <<"Q","U","A","R","A","N","T","I","N","E","D">>
      [] st = "FAILED" -> <<"F","A","I","L","E","D">>
      [] st = "passed" -> <<"p","a","s","s","e","d">>
      [] st = "quarantined" -> <<"q","u","a","r","a","n","t","i","n","e","d">>
      [] st = "failed" -> <<"f","a","i","l","e","d">>
      [] st = "running" -> <<"r","u","n","n","i","n","g">>

\* C12: the final status is PASSED iff current_ci_status is passed or the
\* test exit code is 0; otherwise QUARANTINED iff a quarantine reason is
\* present; otherwise FAILED.  The status in the final state and the status
\* persisted to the journal are that value in lower case.
C12_FinalStatusRule ==
    LET passed == \/ ("current_ci_status" \in DOMAIN state /\ state["current_ci_status"] = "passed")
                  \/ ("test_exit_code" \in DOMAIN state /\ state["test_exit_code"] = 0)
        quarantine == "quarantine_reason" \in DOMAIN state /\ state["quarantine_reason"] # <<>>
        final_status == artifact[1].final_status
    IN  Finished =>
          /\ final_status \in {"PASSED", "QUARANTINED", "FAILED"}
          /\ final_status = "PASSED" <=> passed
          /\ ~passed => (final_status = "QUARANTINED" <=> quarantine)
          /\ (~passed /\ ~quarantine) => final_status = "FAILED"
          /\ StatusText(state["status"]) = Lower(StatusText(final_status))
          /\ StatusText(journal[Len(journal)].status) = Lower(StatusText(final_status))
          /\ events[Len(events)].final_status = final_status

\* a passed CI run wins over a quarantine reason
C12_Witness ==
    /\ Finished
    /\ Quarantined
    /\ artifact[1].final_status = "PASSED"
    /\ state["status"] = "passed"
    /\ journal[Len(journal)].status = "passed"

\* the Runner's exit code was 0 in the first iteration
C13_FirstSuitePassed ==
    /\ state["iteration"] = 1
    /\ "test_exit_code" \in DOMAIN state /\ state["test_exit_code"] = 0

\* C13: when the Runner's exit code is 0 in the first iteration, the Analyzer
\* yields no failures, the only node executed afterwards is the Scorer, and
\* the artifact has final_status PASSED, total_failures 0, base 100,
\* total >= 100 and no fixes.
C13_CleanRepositoryPasses ==
    C13_FirstSuitePassed =>
        /\ state["current_node"] \in {"test_runner", "ast_analyzer", "scorer"}
        /\ state["current_node"] = "test_runner" => pc \in {"ast_analyzer", "crashed"}
        /\ state["current_node"] = "ast_analyzer" =>
              state["failures"] = <<>> /\ pc \in {"scorer", "crashed"}
        /\ state["fixes"] = <<>> /\ state["ci_runs"] = <<>> /\ repo = EmptyRepo
        /\ Len(artifact) >= 1 =>
              /\ artifact[1].final_status = "PASSED"
              /\ artifact[1].total_failures = 0
              /\ artifact[1].score.base = 100 * Tenths
              /\ artifact[1].score.total >= 100 * Tenths
              /\ artifact[1].fixes = <<>>

C13_Witness ==
    /\ C13_FirstSuitePassed
    /\ Finished
    /\ artifact[1].score.total = 110 * Tenths
    /\ steps = 4

C15_TotalFixesCountsFixedRows ==
    Len(artifact) >= 1 =>
        LET a == artifact[1]
        IN  /\ a.total_fixes = Cardinality({i \in 1..Len(a.fixes) : a.fixes[i].status = "FIXED"})
            /\ Len(a.fixes) = Len(state["fixes"])
            /\ \A i \in 1..Len(a.fixes) :
                  /\ a.fixes[i].status = "FIXED" <=> state["fixes"][i].status = "applied"
                  /\ state["fixes"][i].status \in {"failed", "skipped", "rolled_back"} =>
                        a.fixes[i].status = "FAILED"

C15_Witness ==
    /\ Finished
    /\ artifact[1].total_fixes = 1
    /\ Len(artifact[1].fixes) = 2
    /\ \E i \in 1..2 : state["fixes"][i].status = "rolled_back" /\ artifact[1].fixes[i].status = "FAILED"

PublicCiStatuses == {"pending", "running", "passed", "failed"}

\* C16: the ci_log has one row per CiRun, in the same order; a CiRun whose
\* status is no_ci is reported failed, every other status is reported as it
\* is, so every status of the ci_log is pending, running, passed or failed.
C16_CiLogIsPublic ==
    Finished =>
        LET ci_log == artifact[1].ci_log
            ci_runs == Get(state, "ci_runs", <<>>)
        IN  /\ Len(ci_log) = Len(ci_runs)
            /\ \A i \in 1..Len(ci_log) :
                  /\ ci_log[i].status \in PublicCiStatuses
                  /\ ci_runs[i].status = "no_ci" => ci_log[i].status = "failed"
                  /\ ci_runs[i].status # "no_ci" => ci_log[i].status = ci_runs[i].status
                  /\ ci_log[i].iteration = ci_runs[i].iteration
                  /\ ci_log[i].regression = ci_runs[i].regression

C16_Witness ==
    /\ Finished
    /\ Len(artifact[1].ci_log) = 2
    /\ state["ci_runs"][1].status = "no_ci" /\ artifact[1].ci_log[1].status = "failed"
    /\ state["ci_runs"][2].status = "pending" /\ artifact[1].ci_log[2].status = "pending"

STR_AI_AGENT == SubSeq(STR_AI_AGENT_Fix, 1, Len(STR_AI_AGENT_Fix) - 5)

\* C17: every commit message begins with '[AI-AGENT]': the message of every
\* commit the Publisher creates, the commit_message of every committed
\* FixRecord, and the commit_message of every row of the artifact's fixes.
C17_CommitMessagesAreTagged ==
    /\ \A i \in 1..Len(repo.messages) : StartsWith(repo.messages[i], STR_AI_AGENT)
    /\ \A i \in 1..Len(state["fixes"]) :
          state["fixes"][i].commit_sha # None =>
              StartsWith(state["fixes"][i].commit_message, STR_AI_AGENT)
    /\ Len(artifact) >= 1 =>
          \A i \in 1..Len(artifact[1].fixes) :
              StartsWith(artifact[1].fixes[i].commit_message, STR_AI_AGENT)

\* one fix committed, one fix never committed, both in the artifact
C17_Witness ==
    /\ Finished
    /\ Len(repo.messages) = 1
    /\ Len(state["fixes"]) = 2
    /\ state["fixes"][1].commit_sha # None
    /\ state["fixes"][2].commit_message = <<>>

RunOver == pc \in {"END", "crashed"}
RunCompleteEvents == {i \in 1..Len(events) : events[i].type = "run_complete"}
\* the errors the crash handler has reported
Crashes == {events[i].exc : i \in {j \in 1..Len(events) : events[j].type = "thought"}}

\* C18: when a node raises an error nothing catches, the orchestrator marks
\* the run failed in the journal, emits a terminal run_complete event with
\* final_status FAILED and re-raises the error.
C18_CrashEmitsRunComplete ==
    pc = "crashed" =>
        /\ journal[Len(journal)].status = "failed"
        /\ \E i \in RunCompleteEvents :
              /\ events[i].final_status = "FAILED"
              /\ \A j \in RunCompleteEvents : j <= i

\* what the crash handler does: the journal row, a status update and a thought
C18_CrashIsJournalled ==
    pc = "crashed" =>
        /\ journal[Len(journal)].status = "failed"
        /\ events[Len(events) - 1] = StatusUpdate("failed", "error", 0)
        /\ events[Len(events)].type = "thought"

TerminalStatuses == {"passed", "failed", "quarantined"}

C19_StatusMonotone ==
    state'["status"] # state["status"] =>
        state["status"] = "running" /\ state'["status"] \in TerminalStatuses

\* C19: the status only moves from running to passed, failed or quarantined,
\* and once the state's status is terminal no node changes any field of the
\* state.
C19_TerminalStateIsFrozen ==
    [][ /\ C19_StatusMonotone
        /\ state["status"] \in TerminalStatuses => state' = state ]_vars

\* what the code does guarantee: the status only moves from running to
\* passed, failed or quarantined and never changes afterwards; once it is
\* terminal the only node that still changes the state is the Scorer, which
\* runs once after the Publisher's quarantine, keeps the status and ends
\* the run.
C19_OnlyScorerAfterTerminal ==
    [][ /\ C19_StatusMonotone
        /\ (state["status"] \in TerminalStatuses /\ state' # state) =>
              /\ pc = "scorer" /\ pc' = "END"
              /\ state["current_node"] = "commit_push"
              /\ state'["status"] = state["status"]
        /\ pc = "END" => state' = state ]_vars

\* C20: in every run in which no node raises, the Scorer executes exactly
\* once, it is the last node executed, it assigns the ScoreBreakdown and
\* emits exactly one run_complete event; no node runs after the Scorer.
C20_ScorerRunsExactlyOnce ==
    /\ Len(artifact) >= 1 => RunOver
    /\ (RunOver /\ "node error" \notin Crashes) =>
          /\ pc = "END"
          /\ Len(artifact) = 1
          /\ state["current_node"] = "scorer"
          /\ "score" \in DOMAIN state /\ state["score"] = artifact[1].score
          /\ Cardinality(RunCompleteEvents) = 1

\* what the code does guarantee: the same for the runs that the recursion
\* limit does not cut short
C20_HoldsWithinLimit ==
    "GraphRecursionError" \in Crashes \/ C20_ScorerRunsExactlyOnce

\* the events that carry a step index, in emission order
Indexed == SelectSeq(events, LAMBDA e : e.type = "thought")

\* C21: within one run the step_index of the emitted events is strictly
\* increasing in emission order, across all nodes and iterations.
C21_StepIndexStrictlyIncreasing ==
    \A i, j \in 1..Len(Indexed) : i < j => Indexed[i].step_index < Indexed[j].step_index

\* the commits in the working copy that the workflow bootstrapper made
BootstrapCommits == repo.commits - Len(repo.messages)

\* the workflow bootstrapper has fired in this run
Bootstrapped == Get(state, "ci_workflow_created", FALSE)

\* C22: the workflow bootstrapper runs at most once per run: once it has
\* fired it is never the next node again, and a no_ci result of the CI
\* watcher is then routed by the retry / score clauses.
C22_BootstrapAtMostOnce ==
    /\ BootstrapCommits <= 1
    /\ Bootstrapped =>
        /\ pc # "ci_workflow_creator"
        /\ (Get(state, "current_node", "") = "ci_monitor"
              /\ Get(state, "current_ci_status", "failed") = "no_ci"
              /\ pc \in Nodes)
             => /\ last_route \in {"retry", "scorer"}
                /\ pc = RetryTarget(last_route)

\* a second no_ci result, after the bootstrapper has fired, is being routed
C22_Witness ==
    /\ Bootstrapped
    /\ BootstrapCommits = 1
    /\ Get(state, "current_node", "") = "ci_monitor"
    /\ Get(state, "current_ci_status", "failed") = "no_ci"
    /\ Len(Get(state, "ci_runs", <<>>)) >= 2
    /\ pc = "increment_iteration"

\* C23: a run can be cancelled externally; on cancel the run transitions to
\* failed with an explicit error and emits run_complete with final_status
\* FAILED, and no further node executes.
C23_CancelledRunIsFailed ==
    pc = "cancelled" =>
        /\ journal[Len(journal)].status = "failed"
        /\ Truthy(state, "error_message")
        /\ \E i \in 1..Len(events) :
              events[i].type = "run_complete" /\ events[i].final_status = "FAILED"

\* the failure gets no patch: unknown path, missing file or no patch generated
Unpatchable(failure, env) ==
    \/ ~env.path_known /\ ~(failure.bug_type = "IMPORT" /\ env.manifest)
    \/ env.path_known /\ ~env.exists
    \/ ~env.patch

\* what one execution of fix_generator on failures found as envs must leave
RecordsFollowFailures(failures, envs, old, new) ==
    /\ Len(new) = Len(old) + Len(failures)
    /\ SubSeq(new, 1, Len(old)) = old
    /\ \A i \in 1..Len(failures) :
          /\ new[Len(old) + i].bug_type = failures[i].bug_type
          /\ new[Len(old) + i].description = failures[i].error_message
          /\ Unpatchable(failures[i], envs[i])
                => new[Len(old) + i].status \in {"skipped", "failed"}
          /\ ~Unpatchable(failures[i], envs[i])
                => new[Len(old) + i].status = "applied"

\* C24: each execution of fix_generator on a non-empty failure list appends
\* exactly one FixRecord per failure, in the order of the failure list, and
\* keeps the existing FixRecords as an unchanged prefix; a failure that
\* cannot be patched yields a skipped or failed record and the remaining
\* failures are still processed.
C24_OneRecordPerFailure ==
    [][FixGen
          => RecordsFollowFailures(state["failures"], repo.envs,
                                   Get(state, "fixes", <<>>), Get(state', "fixes", <<>>))]_vars

\* a batch of two after earlier records: the first failure could not be
\* patched, the second was
C24_Witness ==
    /\ pc = "commit_push"
    /\ Len(state["failures"]) = 2
    /\ Len(state["fixes"]) > 2
    /\ state["fixes"][Len(state["fixes"]) - 1].status \in {"skipped", "failed"}
    /\ state["fixes"][Len(state["fixes"])].status = "applied"
    /\ state["fixes"][Len(state["fixes"]) - 1].bug_type # state["fixes"][Len(state["fixes"])].bug_type

\* C25: when the Runner returns exit code 127 because the framework binary
\* is absent, the run proceeds to the Scorer and is finalized FAILED.
C25_AbsentBinaryIsFailed ==
    (Finished /\ Get(state, "test_exit_code", 0) = EXIT_NOT_FOUND)
        => /\ artifact[Len(artifact)].final_status = "FAILED"
           /\ state["status"] = "failed"

\* C26: an error message reporting a Python IndentationError (such as
\* "IndentationError: unexpected indent") is classified INDENTATION.
C26_IndentationErrorIsIndentation ==
    \A i \in 1..Len(Get(state, "failures", <<>>)) :
        Contains(state["failures"][i].error_message, TOK_IndentationError)
            => state["failures"][i].bug_type = "INDENTATION"

\* state.py: the six values of BugType
SixBugTypes == {BugTypes[i] : i \in 1..Len(BugTypes)}

\* the category of the first rule that matches, in the order the claim gives
FirstMatchingRule(error_msg) ==
    IF Search(PAT_SYNTAX, error_msg) THEN "SYNTAX"
    ELSE IF Search(PAT_INDENTATION, error_msg) THEN "INDENTATION"
    ELSE IF Search(PAT_IMPORT, error_msg) THEN "IMPORT"
    ELSE IF Search(PAT_TYPE_ERROR, error_msg) THEN "TYPE_ERROR"
    ELSE IF Search(PAT_LINTING, error_msg) THEN "LINTING"
    ELSE "LOGIC"

\* C27: classification is total and ordered (first matching rule in the
\* order SYNTAX, INDENTATION, IMPORT, TYPE_ERROR, LINTING, LOGIC; LOGIC when
\* none matches), and every TestFailure and FixRecord of a run carries one of
\* the six bug types, the completion-service fallback's failures included.
C27_EveryBugTypeIsOneOfSix ==
    /\ \A error_msg \in ErrorMessagesParsed :
          _classify_bug_type(error_msg) = FirstMatchingRule(error_msg)
    /\ \A i \in 1..Len(Get(state, "failures", <<>>)) :
          state["failures"][i].bug_type \in SixBugTypes
    /\ \A i \in 1..Len(Get(state, "fixes", <<>>)) :
          state["fixes"][i].bug_type \in SixBugTypes

\* the module the failure of the state names
MissingModule == _extract_missing_module(state["failures"][1].error_message)

\* the lines of a requirements.txt that name the module (its name before
\* "==", whatever the case)
ModuleLines(file_content, missing_module) ==
    LET lines == SplitLines(file_content)
    IN  { i \in 1..Len(lines) :
            Lower(SplitBefore(Strip(lines[i]), <<"=", "=">>)) = Lower(missing_module) }

\* new is old plus one entry for the module
AddedOnce(file_name, old, new) ==
    IF NameLower(file_name) = "requirements.txt"
    THEN /\ ModuleLines(old, MissingModule) = {}
         /\ SplitLines(new) = Append(SplitLines(old), MissingModule)
         /\ StartsWith(new, old)
         /\ new[Len(new)] = NL
         /\ Cardinality(ModuleLines(new, MissingModule)) = 1
    ELSE LET before == json_loads(old).d
             after == json_loads(new).d
             deps == Lookup(after, "devDependencies").o
         IN  /\ json_loads(new).ok
             /\ Concat(MissingModule) \notin
                   (IF "devDependencies" \in Keys(before)
                    THEN Keys(Lookup(before, "devDependencies").o) ELSE {})
             /\ deps[Len(deps)] = [key |-> Concat(MissingModule), val |-> "latest"]
             /\ Put(after, "devDependencies", JObj(SubSeq(deps, 1, Len(deps) - 1)))
                   = (IF "devDependencies" \in Keys(before) THEN before
                      ELSE Put(before, "devDependencies", JObj(<<>>)))

\* C28: the IMPORT rule on a dependency manifest adds the missing module
\* exactly once: on a requirements.txt (package.json) that lacks the module
\* it returns the original content plus the module (a new line ending in a
\* newline, resp. a devDependencies entry with value "latest"), and applied
\* to its own output it returns no patch.
C28_ImportRuleAddsModuleOnce ==
    [][steps' = steps + 1 =>
          /\ steps = 0
          /\ AddedOnce(repo.file_name, repo.file_content, repo'.file_content)
          /\ ~_fix_import(state["failures"][1], repo'.file_content, repo.file_name).patched]_vars

\* the rule has patched a requirements.txt that had other lines, and its
\* second application has returned no patch
C28_Witness ==
    /\ pc = "no_patch"
    /\ steps = 1
    /\ repo.file_name = "requirements.txt"
    /\ Len(SplitLines(repo.file_content)) > 2
    /\ MissingModule = <<"Y">>

(***************************************************************************)
(* C29.  Status queries of the agent service.                             *)
(***************************************************************************)
RunIds == {RUN_1, RUN_2}
Slots == 1..MaxRequests
RunIdOf(body) == IF "run_id" \in DOMAIN body THEN body.run_id ELSE <<>>
StatusAnswered(k) == requests[k].phase = "responded" /\ requests[k].kind = "status"
StartAnswered(k) == requests[k].phase = "responded" /\ requests[k].kind = "start"
AcceptedStart(j, run_id) ==
    /\ StartAnswered(j)
    /\ requests[j].response.status_code = 200
    /\ requests[j].response.content.run_id = run_id

\* what a status query for run_id returns: started before it was handled,
\* running at repo_scanner; never started, queued at iteration 0
C29_Returned ==
    \A k \in Slots :
        StatusAnswered(k) =>
            LET run_id == requests[k].body.run_id
                content == requests[k].response.content
            IN  /\ content.run_id = run_id
                /\ (\E j \in requests[k].seen : AcceptedStart(j, run_id))
                      => content.status = "running" /\ content.current_node = "repo_scanner"
                /\ (\A j \in Slots : ~AcceptedStart(j, run_id))
                      => /\ content.status = "queued"
                         /\ content.iteration = 0

\* a step of a request for another run_id leaves what a query for run_id returns
C29_OthersLeaveAlone ==
    \A k \in Slots : \A run_id \in RunIds :
        (requests'[k].phase # requests[k].phase /\ RunIdOf(requests'[k].body) # run_id)
            => agent_status(run_state_store', run_id) = agent_status(run_state_store, run_id)

\* C29: after POST /agent/start has accepted a payload for run_id R, a status
\* query for R returns status running and current_node repo_scanner; a status
\* query for a run_id that was never started returns queued with iteration 0;
\* and starts and queries of other run_ids, however interleaved, do not change
\* what is returned for R.
C29_StatusOfARun == []C29_Returned /\ [][C29_OthersLeaveAlone]_vars

\* RUN_1 is started, then RUN_2, and the query for RUN_1 that follows both
\* returns running
C29_Witness ==
    \E k \in Slots : \E i \in requests[k].seen : \E j \in requests[k].seen :
        /\ StatusAnswered(k) /\ requests[k].body.run_id = RUN_1
        /\ AcceptedStart(i, RUN_1)
        /\ AcceptedStart(j, RUN_2) /\ i \in requests[j].seen
        /\ requests[k].response.content.status = "running"

(***************************************************************************)
(* C30.  Invalid start requests.                                           *)
(***************************************************************************)
\* the payload breaks a constraint of the run-start contract
ViolatesConstraints(body) ==
    \/ \E field \in StartFields : field \notin DOMAIN body
    \/ Len(body.run_id) < 1 \/ Len(body.run_id) > RUN_ID_MAX
    \/ ~RepoUrlPattern(body.repo_url)
    \/ Len(body.team_name) < 1 \/ Len(body.team_name) > NAME_MAX
    \/ Len(body.leader_name) < 1 \/ Len(body.leader_name) > NAME_MAX
    \/ ~BranchPattern(body.branch_name)
    \/ body.max_iterations < 1 \/ body.max_iterations > 20

Rejected(j) ==
    /\ StartAnswered(j)
    /\ requests[j].response.status_code = 400
    /\ requests[j].response.content.error.code = "INVALID_INPUT"
    /\ requests[j].response.content.error.message = "Request payload validation failed"

\* the answer to a violating start request is the 400 envelope, and the step
\* that answers it leaves the store as it was
C30_RejectedAndNotRecorded ==
    \A k \in Slots :
        (/\ requests[k].kind = "start" /\ requests[k].phase = "received"
         /\ requests'[k].phase = "responded"
         /\ ViolatesConstraints(requests[k].body))
            => /\ requests'[k].response.status_code = 400
               /\ requests'[k].response.content.error.code = "INVALID_INPUT"
               /\ requests'[k].response.content.error.message
                     = "Request payload validation failed"
               /\ run_state_store' = run_state_store

\* a run_id whose start requests all violated the constraints is still queued
C30_StillQueued ==
    \A k \in Slots :
        (/\ StatusAnswered(k)
         /\ \A j \in Slots :
               (requests[j].kind = "start" /\ RunIdOf(requests[j].body) = requests[k].body.run_id)
                  => ViolatesConstraints(requests[j].body))
            => /\ requests[k].response.content.status = "queued"
               /\ requests[k].response.content.iteration = 0

\* C30: a run-start request whose payload violates the validation constraints
\* (a missing field, a branch_name outside the pattern, max_iterations outside
\* 1..20, ...) is answered with HTTP 400 and the envelope with code
\* INVALID_INPUT and message 'Request payload validation failed', and records
\* no run state: a later status query for that run_id still returns queued.
C30_InvalidStartIsRejected == []C30_StillQueued /\ [][C30_RejectedAndNotRecorded]_vars

\* a start of RUN_1 with a violating payload was rejected, and the query for
\* RUN_1 handled after it returned queued
C30_Witness ==
    \E k \in Slots : \E j \in requests[k].seen :
        /\ StatusAnswered(k) /\ requests[k].body.run_id = RUN_1
        /\ Rejected(j) /\ RunIdOf(requests[j].body) = RUN_1
        /\ ViolatesConstraints(requests[j].body)
        /\ requests[k].response.content.status = "queued"

\* C31: the retry transition increases iteration by 1 and resets
\* pushed_this_iteration, so pushed_this_iteration is false from the start of
\* every new iteration until that iteration's Publisher has pushed.
C31_PushedFlagResetByRetry ==
    publisher_runs = 0 => ~Get(state, "pushed_this_iteration", FALSE)

(***************************************************************************)
(* C32, C33.  The completion service's key rotator and client factory.     *)
(***************************************************************************)
\* the i-th element of the key list repeated cyclically
Cyclic(keys, i) == keys[((i - 1) % Len(keys)) + 1]

\* C32: under any interleaving of concurrent _next_key calls the cycle is
\* initialised exactly once, and the keys handed out, in lock-acquisition
\* order, are the configured key list repeated cyclically, so any n
\* consecutive calls over n keys return each key exactly once.
C32_RoundRobinUnderInterleaving ==
    LET keys == llm.GROQ_API_KEYS
        n == Len(keys)
    IN  /\ llm.inits <= 1
        /\ llm.handed # <<>> => llm.inits = 1
        /\ \A i \in 1..Len(llm.handed) : llm.handed[i] = Cyclic(keys, i)
        /\ \A i \in 1..Len(llm.handed) :
              i + n - 1 <= Len(llm.handed)
                 => /\ {llm.handed[j] : j \in i..(i + n - 1)} = {keys[j] : j \in 1..n}
                    /\ \A j, k \in i..(i + n - 1) : j # k => llm.handed[j] # llm.handed[k]

\* two threads were inside get_llm at once, and the two keys went round twice
C32_Witness ==
    /\ Len(llm.GROQ_API_KEYS) = 2
    /\ Len(llm.handed) = 4
    /\ \A t \in Tasks : Len(tasks[t].got) = 2
    /\ tasks[1].got[1].api_key # tasks[1].got[2].api_key
    /\ tasks[1].got[1].api_key = "gsk_2"

\* what every call of get_llm that has ended gave its caller
C33_Selected ==
    \A t \in Tasks : \A i \in 1..Len(tasks[t].got) :
        LET client == tasks[t].got[i]
        IN  /\ llm.GROQ_API_KEYS # <<>>
                 => /\ client.provider = "groq"
                    /\ \E j \in 1..Len(llm.handed) : llm.handed[j] = client.api_key
            /\ (llm.GROQ_API_KEYS = <<>> /\ llm.OPENAI_API_KEY # "")
                 => client = Client("openai", llm.OPENAI_API_KEY)
            /\ (llm.GROQ_API_KEYS = <<>> /\ llm.OPENAI_API_KEY = "")
                 => client.provider = "RuntimeError"

\* a call that ends in the error leaves the rotator as it was
C33_RaiseLeavesRotator ==
    \A t \in Tasks :
        (/\ Len(tasks'[t].got) > Len(tasks[t].got)
         /\ tasks'[t].got[Len(tasks'[t].got)].provider = "RuntimeError")
            => llm' = llm

\* C33: get_llm selects the provider by configuration: the primary provider
\* with the next round-robin key whenever primary keys are configured; the
\* secondary provider when no primary key is configured but a secondary key
\* is; and it raises an error, without advancing the key rotator, when neither
\* is configured.
C33_ProviderByConfiguration == []C33_Selected /\ [][C33_RaiseLeavesRotator]_vars

\* neither provider is configured: every call of both threads has raised
C33_Witness ==
    /\ llm.GROQ_API_KEYS = <<>> /\ llm.OPENAI_API_KEY = ""
    /\ \A t \in Tasks :
          /\ Len(tasks[t].got) = MaxCalls
          /\ tasks[t].got[MaxCalls].provider = "RuntimeError"
    /\ llm.handed = <<>> /\ llm.cycle = <<>>

\* C34: on every exit path of the Publisher's commit-and-push step (push
\* succeeded, push rejected, push raised), the origin remote URL after the
\* step equals the URL before the step, so the injected access token is never
\* left in the repository's remote configuration.
C34_RemoteUrlRestored ==
    pc \in {"returned", "raised"}
        => /\ repo.origin_url = repo.url_before
           /\ ~Contains(repo.origin_url, STR_x_access_token)

\* the token was in the remote URL while the push ran, and the push raised
C34_Witness ==
    /\ pc = "raised"
    /\ repo.outcome = "push_raises"
    /\ repo.auth_url # repo.original_url
    /\ Contains(repo.auth_url, repo.GITHUB_TOKEN) /\ repo.GITHUB_TOKEN # <<>>

\* a CI run observed in the iteration the run ended in, and it passed
CiPassedInFinalIteration ==
    \E i \in 1..Len(Get(state, "ci_runs", <<>>)) :
        /\ state["ci_runs"][i].iteration = state["iteration"]
        /\ state["ci_runs"][i].status = "passed"

\* C35: a run finalized PASSED had, in its final iteration, either a Runner
\* exit code of 0 or a CI run that passed in that same iteration; a CI status
\* recorded in an earlier iteration never decides the final status of a later
\* iteration in which no CI run was observed.
C35_PassedOnFinalIterationOnly ==
    (Finished /\ artifact[Len(artifact)].final_status = "PASSED")
        => \/ Get(state, "test_exit_code", 1) = 0
           \/ CiPassedInFinalIteration

\* C36: every retry is preceded by a successful push in the same iteration:
\* CIWatcher (and hence the retry transition) is reached only when
\* pushed_this_iteration is true, so in every reachable state
\* total_commits >= iteration - 1.
C36_RetryFollowsPush ==
    /\ pc \in {"ci_monitor", "ci_workflow_creator", "increment_iteration"}
          => /\ Get(state, "pushed_this_iteration", FALSE)
             /\ publisher_runs >= 1
    /\ pc \in Nodes \cup {"END", "crashed"}
          => Get(state, "total_commits", 0) >= Get(state, "iteration", 1) - 1

\* a second iteration is running after one push
C36_Witness ==
    /\ pc = "ast_analyzer"
    /\ state["iteration"] = 2
    /\ state["total_commits"] = 1
    /\ publisher_runs = 0

\* the step just taken is ci_monitor returning and should_retry being evaluated
RetryEvaluated ==
    pc = "ci_monitor" /\ pc' \in {"increment_iteration", "ci_workflow_creator", "scorer"}

\* C37: whenever should_retry is evaluated, the current iteration's test exit
\* code is non-zero and its failure list is non-empty; consequently a passed CI
\* with iterations remaining always leads to a retry that re-runs the tests,
\* and should_retry sends a passed-CI run to the Scorer only through the
\* budget clause.
C37_RetryEvaluatedOnFailuresOnly ==
    [][RetryEvaluated =>
          /\ Get(state', "test_exit_code", 1) # 0
          /\ Get(state', "failures", <<>>) # <<>>
          /\ (state'["current_ci_status"] = "passed"
                /\ state'["iteration"] < state'["max_iterations"])
                => pc' = "increment_iteration" /\ last_route' = "retry"
          /\ (state'["current_ci_status"] = "passed" /\ pc' = "scorer")
                => state'["iteration"] >= state'["max_iterations"]]_vars

\* CI passed in iteration 1 of 2 and the run went on to the retry transition
C37_Witness ==
    /\ pc = "increment_iteration"
    /\ state["current_ci_status"] = "passed"
    /\ state["iteration"] = 1
    /\ state["test_exit_code"] = 1

\* the writes of a terminal status to the run's journal row, in order
TerminalWrites == {i \in 1..Len(journal) : journal[i].status \in TerminalStatuses}

\* C38: the journal's run status is written with a terminal value at most once
\* per run: after the Scorer has persisted passed, failed or quarantined, no
\* later step of the same run (the crash handler included) overwrites it.
C38_TerminalStatusWrittenOnce == Cardinality(TerminalWrites) <= 1

\* C39: in every result artifact total_fixes <= total_failures (the applied
\* fixes are among the fix records that are not rolled back), hence
\* 0 <= base <= 100 and total <= 110.
C39_ScoreBounds ==
    \A i \in 1..Len(artifact) :
        /\ artifact[i].total_fixes <= artifact[i].total_failures
        /\ artifact[i].score.base >= 0
        /\ artifact[i].score.base <= 100 * Tenths
        /\ artifact[i].score.total <= 110 * Tenths

\* one of two failures fixed in a run that did not pass: base is 50
C39_Witness ==
    /\ Finished
    /\ artifact[1].final_status = "FAILED"
    /\ artifact[1].total_failures = 2
    /\ artifact[1].total_fixes = 1
    /\ artifact[1].score.base = 50 * Tenths

\* C40: the journal connection pool is created at most once per process: when
\* several runs call get_pool concurrently (interleaving at the await inside
\* pool creation), all callers obtain the same pool and no second pool is ever
\* created.
C40_PoolCreatedOnce ==
    /\ db.created <= 1
    /\ \A t, u \in Tasks :
          \A i \in 1..Len(tasks[t].got) : \A j \in 1..Len(tasks[u].got) :
              tasks[t].got[i] = tasks[u].got[j]

====
